---- MODULE Spec2Model ----
(***************************************************************************)
(* Campus status / study-partner service (Integral0593/HackCMU).           *)
(*                                                                         *)
(* The in-memory stores of services.py (ScheduleService, StatusService),   *)
(* the derived queries built on them (status board, recommendations) and   *)
(* the file-backed resolver functions of app/algorithm.py.                 *)
(*                                                                         *)
(* Python strings that the code inspects character by character (clock     *)
(* times) are sequences of one-character strings; strings the code only    *)
(* compares for equality (course codes, names, majors, day names, status   *)
(* tags) are TLA+ strings.  uuid4 values are fresh names: the k-th user    *)
(* gets id k, the k-th schedule entry id k, the k-th status record id k.   *)
(***************************************************************************)
EXTENDS Integers, Sequences, FiniteSets, TLC

VARIABLES
    users,            \* ScheduleService.users: insertion-ordered dict, as the sequence of its values
    n_users,          \* number of User objects created so far (names the next uuid4)
    schedules,        \* ScheduleService.schedules: schedule id -> Schedule
    user_schedules,   \* ScheduleService.user_schedules: defaultdict(list), user id -> list of schedule ids
    n_schedules,      \* number of Schedule objects created so far (names the next uuid4)
    user_statuses,    \* StatusService.user_statuses: user id -> UserStatus
    n_updates,        \* number of UserStatus objects created so far (uuid4 and datetime.now())
    engine_schedules, \* algorithm.engine.schedules: user id -> {userId, schedule: list of class_info}
    engine_statuses,  \* algorithm.engine.statuses: user id -> {userId, manualStatus}
    main_module,      \* the name under which app.py runs: "app" when the server imports it, "__main__" when it is run as a script (app.py:230)
    threads,          \* request handlers in progress (thread id -> frame)
    resp              \* what the last finished call returned or raised

vars == <<users, n_users, schedules, user_schedules, n_schedules, user_statuses,
          n_updates, engine_schedules, engine_statuses, main_module, threads, resp>>

store_vars == <<users, n_users, schedules, user_schedules, n_schedules, user_statuses, n_updates>>

(***************************************************************************)
(* Generic helpers                                                         *)
(***************************************************************************)
Range(s) == {s[i] : i \in 1..Len(s)}

\* None, where the other values are objects, lists or dicts
None == [none |-> TRUE]

\* None, where the other values are str
NoneStr == "None"

\* how a call ends: it returns a value or an exception leaves it
Return(value) == [returned |-> value]

Raised(kind, message) == [raised |-> kind, message |-> message]

IsRaised(outcome) == "raised" \in DOMAIN outcome

\* d[k] = v on a dict: the key is added when absent
DictSet(d, k, v) == [x \in DOMAIN d \cup {k} |-> IF x = k THEN v ELSE d[x]]

\* del d[k]
DictDel(d, k) == [x \in DOMAIN d \ {k} |-> d[x]]

EmptyDict == [x \in {} |-> None]

(***************************************************************************)
(* Python str, as far as the time code looks into it                        *)
(***************************************************************************)
DigitChars == <<"0", "1", "2", "3", "4", "5", "6", "7", "8", "9">>

IsDigit(c) == \E i \in 1..Len(DigitChars) : DigitChars[i] = c

DigitVal(c) == (CHOOSE i \in 1..Len(DigitChars) : DigitChars[i] = c) - 1

\* ord(c) for the characters that occur in the modelled strings
Ord(c) ==
    IF IsDigit(c) THEN 48 + DigitVal(c)
    ELSE CASE c = " " -> 32
           [] c = "-" -> 45
           [] c = ":" -> 58
           [] c = "a" -> 97
           [] c = "d" -> 100
           [] c = "i" -> 105
           [] c = "l" -> 108
           [] c = "n" -> 110
           [] c = "v" -> 118

\* a < b on str: lexicographic by code point, a proper prefix is smaller
RECURSIVE StrLT(_, _)
StrLT(a, b) ==
    IF b = <<>> THEN FALSE
    ELSE IF a = <<>> THEN TRUE
    ELSE IF Head(a) = Head(b) THEN StrLT(Tail(a), Tail(b))
    ELSE Ord(Head(a)) < Ord(Head(b))

StrLE(a, b) == a = b \/ StrLT(a, b)

\* s.split(':')
RECURSIVE SplitColon(_)
SplitColon(s) ==
    IF s = <<>> THEN << <<>> >>
    ELSE LET rest == SplitColon(Tail(s)) IN
         IF Head(s) = ":" THEN << <<>> >> \o rest
         ELSE << <<Head(s)>> \o Head(rest) >> \o Tail(rest)

\* int(s) succeeds: over the modelled alphabet, exactly for a non-empty digit
\* string with an optional leading minus sign
IntParses(s) ==
    LET digits == IF s # <<>> /\ Head(s) = "-" THEN Tail(s) ELSE s
    IN digits # <<>> /\ \A i \in 1..Len(digits) : IsDigit(digits[i])

\* int(s) for a string that parses
RECURSIVE IntOf(_)
IntOf(s) ==
    IF s = <<>> THEN 0
    ELSE IF Head(s) = "-" THEN 0 - IntOf(Tail(s))
    ELSE 10 * IntOf(SubSeq(s, 1, Len(s) - 1)) + DigitVal(s[Len(s)])

\* str(n) for n >= 0
RECURSIVE StrOfInt(_)
StrOfInt(n) ==
    IF n < 10 THEN <<DigitChars[n + 1]>>
    ELSE StrOfInt(n \div 10) \o <<DigitChars[(n % 10) + 1]>>

\* f"{n:02d}", also what strftime's %H and %M give
Pad2(n) == IF n < 10 THEN <<"0">> \o StrOfInt(n) ELSE StrOfInt(n)

\* now.strftime('%H:%M'); an instant is [day, hour, minute]
StrfHM(now) == Pad2(now.hour) \o <<":">> \o Pad2(now.minute)

\* now.strftime('%A').lower()
StrfDay(now) == now.day

(***************************************************************************)
(* app/algorithm.py: time utilities                                        *)
(***************************************************************************)
\* the range test with the hour bound one too far
TimeToMinutesUpTo24(time_str) ==
    IF ~(\E i \in 1..Len(time_str) : time_str[i] = ":") THEN 0
    ELSE LET parts == SplitColon(time_str) IN
         IF Len(parts) # 2 THEN 0
         ELSE IF ~IntParses(parts[1]) \/ ~IntParses(parts[2]) THEN 0
         ELSE LET hours == IntOf(parts[1])
                  minutes == IntOf(parts[2])
              IN IF 0 <= hours /\ hours <= 24 /\ 0 <= minutes /\ minutes <= 59
                 THEN hours * 60 + minutes
                 ELSE 0

time_to_minutes(time_str) ==
    IF ~(\E i \in 1..Len(time_str) : time_str[i] = ":") THEN 0
    ELSE LET parts == SplitColon(time_str) IN
         IF Len(parts) # 2 THEN 0
         ELSE IF ~IntParses(parts[1]) \/ ~IntParses(parts[2]) THEN 0
         ELSE LET hours == IntOf(parts[1])
                  minutes == IntOf(parts[2])
              IN IF 0 <= hours /\ hours <= 23 /\ 0 <= minutes /\ minutes <= 59
                 THEN hours * 60 + minutes
                 ELSE 0

\* the interval test without the branch for an interval that passes midnight
IsTimeBetweenNoWrap(current, start, end) ==
    LET current_min == time_to_minutes(current)
        start_min == time_to_minutes(start)
        end_min == time_to_minutes(end)
    IN start_min <= current_min /\ current_min <= end_min

is_time_between(current, start, end) ==
    LET current_min == time_to_minutes(current)
        start_min == time_to_minutes(start)
        end_min == time_to_minutes(end)
    IN IF end_min < start_min
       THEN current_min >= start_min \/ current_min <= end_min
       ELSE start_min <= current_min /\ current_min <= end_min

(***************************************************************************)
(* app/algorithm.py: the engine's schedule table and the resolver          *)
(***************************************************************************)
\* one element of a user's 'schedule' list in schedules.json; courseName and
\* location are carried along unread and left out
ClassInfo(courseCode, day, startTime, endTime) ==
    [courseCode |-> courseCode, day |-> day, startTime |-> startTime, endTime |-> endTime]

\* RecommendationEngine.refresh_data: the tables become what schedules.json and
\* status.json hold; a file that is missing gives {}
RefreshData(file, status_file) ==
    /\ engine_schedules' = file
    /\ engine_statuses' = status_file
    /\ resp' = [op |-> "refresh_data"]
    /\ UNCHANGED <<store_vars, main_module, threads>>

\* engine.schedules.get(user_id, {}).get('schedule', [])
EngineUserSchedule(user_id) ==
    IF user_id \in DOMAIN engine_schedules THEN engine_schedules[user_id].schedule ELSE <<>>

\* the loop of get_current_class_for_user; "Free" and f"In {course_code}" by their parts
RECURSIVE CurrentClassFrom(_, _, _)
CurrentClassFrom(user_schedule, current_day, current_time) ==
    IF user_schedule = <<>> THEN <<"Free">>
    ELSE LET class_info == Head(user_schedule) IN
         IF /\ class_info.day = current_day
            /\ class_info.startTime # <<>>
            /\ class_info.endTime # <<>>
            /\ is_time_between(current_time, class_info.startTime, class_info.endTime)
         THEN <<"In", class_info.courseCode>>
         ELSE CurrentClassFrom(Tail(user_schedule), current_day, current_time)

get_current_class_for_user(user_id, now) ==
    IF user_id \notin DOMAIN engine_schedules THEN <<"Free">>
    ELSE CurrentClassFrom(EngineUserSchedule(user_id), StrfDay(now), StrfHM(now))

GetCurrentClassForUser(user_id, now) ==
    /\ resp' = [op |-> "get_current_class_for_user", user_id |-> user_id, now |-> now,
                result |-> Return(get_current_class_for_user(user_id, now))]
    /\ UNCHANGED <<store_vars, engine_schedules, engine_statuses, main_module, threads>>

\* the loop of get_next_class_for_user: today's classes that have not started
RECURSIVE NextClassesFrom(_, _, _)
NextClassesFrom(user_schedule, current_day, current_minutes) ==
    IF user_schedule = <<>> THEN <<>>
    ELSE LET class_info == Head(user_schedule)
             start_minutes == time_to_minutes(class_info.startTime)
             rest == NextClassesFrom(Tail(user_schedule), current_day, current_minutes)
         IN IF /\ class_info.day = current_day
               /\ class_info.startTime # <<>>
               /\ start_minutes > current_minutes
            THEN <<[courseCode |-> class_info.courseCode,
                    startTime |-> class_info.startTime,
                    endTime |-> class_info.endTime,
                    start_minutes |-> start_minutes]>> \o rest
            ELSE rest

\* one step of list.sort(key=start_minutes): x takes its place behind its equals
InsertByStartMinutes(sorted, x) ==
    LET before == SelectSeq(sorted, LAMBDA y : y.start_minutes <= x.start_minutes)
        after == SelectSeq(sorted, LAMBDA y : y.start_minutes > x.start_minutes)
    IN before \o <<x>> \o after

\* next_classes.sort(key=lambda x: x['start_minutes']), stable
RECURSIVE SortByStartMinutes(_)
SortByStartMinutes(next_classes) ==
    IF next_classes = <<>> THEN <<>>
    ELSE InsertByStartMinutes(
             SortByStartMinutes(SubSeq(next_classes, 1, Len(next_classes) - 1)),
             next_classes[Len(next_classes)])

\* del next_classes[0]['start_minutes']
WithoutStartMinutes(next_class) ==
    [courseCode |-> next_class.courseCode, startTime |-> next_class.startTime,
     endTime |-> next_class.endTime]

get_next_class_for_user(user_id, now) ==
    IF user_id \notin DOMAIN engine_schedules THEN None
    ELSE LET next_classes == NextClassesFrom(EngineUserSchedule(user_id), StrfDay(now),
                                             time_to_minutes(StrfHM(now)))
         IN IF next_classes # <<>>
            THEN WithoutStartMinutes(SortByStartMinutes(next_classes)[1])
            ELSE None

GetNextClassForUser(user_id, now) ==
    /\ resp' = [op |-> "get_next_class_for_user", user_id |-> user_id, now |-> now,
                result |-> Return(get_next_class_for_user(user_id, now))]
    /\ UNCHANGED <<store_vars, engine_schedules, engine_statuses, main_module, threads>>

\* the dict get_recent_class_for_user returns; courseName is carried along
\* unread and left out
RecentClass(courseCode, endedMinutesAgo) ==
    [courseCode |-> courseCode, endedMinutesAgo |-> endedMinutesAgo]

\* a slip: the gap is compared with <=
RECURSIVE RecentClassFromUpTo(_, _, _, _, _)
RecentClassFromUpTo(user_schedule, current_day, current_minutes, recent_class, min_gap) ==
    IF user_schedule = <<>> THEN recent_class
    ELSE LET class_info == Head(user_schedule)
             gap == current_minutes - time_to_minutes(class_info.endTime)
         IN IF /\ class_info.day = current_day
               /\ class_info.endTime # <<>>
               /\ 0 < gap /\ gap <= min_gap
            THEN RecentClassFromUpTo(Tail(user_schedule), current_day, current_minutes,
                                     RecentClass(class_info.courseCode, gap), gap)
            ELSE RecentClassFromUpTo(Tail(user_schedule), current_day, current_minutes,
                                     recent_class, min_gap)

\* the loop of get_recent_class_for_user, lines 263-273
RECURSIVE RecentClassFrom(_, _, _, _, _)
RecentClassFrom(user_schedule, current_day, current_minutes, recent_class, min_gap) ==
    IF user_schedule = <<>> THEN recent_class
    ELSE LET class_info == Head(user_schedule)
             gap == current_minutes - time_to_minutes(class_info.endTime)
         IN IF /\ class_info.day = current_day
               /\ class_info.endTime # <<>>
               /\ 0 < gap /\ gap < min_gap
            THEN RecentClassFrom(Tail(user_schedule), current_day, current_minutes,
                                 RecentClass(class_info.courseCode, gap), gap)
            ELSE RecentClassFrom(Tail(user_schedule), current_day, current_minutes,
                                 recent_class, min_gap)

\* the most minutes a class may have ended ago, exclusive (line 261)
MinGap == 60

get_recent_class_for_user(user_id, now) ==
    IF user_id \notin DOMAIN engine_schedules THEN None
    ELSE RecentClassFrom(EngineUserSchedule(user_id), StrfDay(now),
                         time_to_minutes(StrfHM(now)), None, MinGap)

GetRecentClassForUser(user_id, now) ==
    /\ resp' = [op |-> "get_recent_class_for_user", user_id |-> user_id, now |-> now,
                result |-> Return(get_recent_class_for_user(user_id, now))]
    /\ UNCHANGED <<store_vars, engine_schedules, engine_statuses, main_module, threads>>

\* the dict get_user_availability returns
Availability(status, social_preference, study_preference) ==
    [status |-> status, social_preference |-> social_preference,
     study_preference |-> study_preference]

\* self.statuses[user_id].get('manualStatus', 'free')
ManualStatus(record) ==
    IF "manualStatus" \in DOMAIN record THEN record.manualStatus ELSE "free"

\* lines 107-126: the status is taken over as it is, the preferences follow it
AvailabilityOf(manual_status) ==
    IF manual_status \in {"social", "want to hang out"}
    THEN Availability(manual_status, "high", "low")
    ELSE IF manual_status \in {"tired", "busy"}
    THEN Availability(manual_status, "low", "low")
    ELSE IF manual_status \in {"studying", "help"}
    THEN Availability(manual_status, "low", "high")
    ELSE Availability(manual_status, "neutral", "neutral")

get_user_availability(user_id) ==
    IF user_id \notin DOMAIN engine_statuses
    THEN Availability("unknown", "neutral", "neutral")
    ELSE AvailabilityOf(ManualStatus(engine_statuses[user_id]))

GetUserAvailability(user_id) ==
    /\ resp' = [op |-> "get_user_availability", user_id |-> user_id,
                result |-> Return(get_user_availability(user_id))]
    /\ UNCHANGED <<store_vars, engine_schedules, engine_statuses, main_module, threads>>

\* if now is None: now = datetime.now() (lines 174-175, 205-206, 249-250);
\* clock is what the wall clock shows during the call
NowOrClock(now, clock) == IF now = None THEN clock ELSE now

\* get_current_class_for_user(user_id, now) as a caller calls it, now being an
\* instant or None
CallGetCurrentClassForUser(user_id, now, clock) ==
    /\ resp' = [op |-> "get_current_class_for_user", user_id |-> user_id,
                supplied |-> now, now |-> NowOrClock(now, clock),
                result |-> Return(get_current_class_for_user(user_id, NowOrClock(now, clock)))]
    /\ UNCHANGED <<store_vars, engine_schedules, engine_statuses, main_module, threads>>

CallGetNextClassForUser(user_id, now, clock) ==
    /\ resp' = [op |-> "get_next_class_for_user", user_id |-> user_id,
                supplied |-> now, now |-> NowOrClock(now, clock),
                result |-> Return(get_next_class_for_user(user_id, NowOrClock(now, clock)))]
    /\ UNCHANGED <<store_vars, engine_schedules, engine_statuses, main_module, threads>>

(***************************************************************************)
(* models.py                                                               *)
(***************************************************************************)
\* a slip: a seventh member
StatusTypeWithSleeping ==
    {"studying", "free", "help", "busy", "tired", "social", "sleeping"}

StatusType == {"studying", "free", "help", "busy", "tired", "social"}

DayType == {"monday", "tuesday", "wednesday", "thursday", "friday", "saturday", "sunday"}

\* User(id, username, major); avatar keeps its default None, no code sets it
User(id, username, major) == [id |-> id, username |-> username, major |-> major]

\* Schedule(...); course_name and location are carried along unread and left out
Schedule(id, user_id, course_code, day, start_time, end_time) ==
    [id |-> id, user_id |-> user_id, course_code |-> course_code, day |-> day,
     start_time |-> start_time, end_time |-> end_time]

UserStatus(id, user_id, manual_status, last_updated) ==
    [id |-> id, user_id |-> user_id, manual_status |-> manual_status,
     last_updated |-> last_updated]

(***************************************************************************)
(* services.py: ScheduleService                                            *)
(***************************************************************************)
UserIds == {users[i].id : i \in 1..Len(users)}

\* self.users.get(user_id)
get_user(user_id) ==
    IF user_id \in UserIds
    THEN users[CHOOSE i \in 1..Len(users) : users[i].id = user_id]
    ELSE None

\* a slip: the lookup compares the name alone
MatchingUsersByName(username, major) ==
    {i \in 1..Len(users) : users[i].username = username}

\* the users the loop of create_or_get_user stops at
MatchingUsers(username, major) ==
    {i \in 1..Len(users) : users[i].username = username /\ users[i].major = major}

CreateOrGetUser(username, major) ==
    LET found == MatchingUsers(username, major) IN
    IF found # {}
    THEN /\ resp' = [op |-> "create_or_get_user", username |-> username, major |-> major,
                     result |-> Return(users[CHOOSE i \in found : \A j \in found : i <= j])]
         /\ UNCHANGED <<store_vars, engine_schedules, engine_statuses, main_module, threads>>
    ELSE LET user == User(n_users + 1, username, major) IN
         /\ users' = Append(users, user)
         /\ n_users' = n_users + 1
         /\ resp' = [op |-> "create_or_get_user", username |-> username, major |-> major,
                     result |-> Return(user)]
         /\ UNCHANGED <<schedules, user_schedules, n_schedules, user_statuses, n_updates,
                        engine_schedules, engine_statuses, main_module, threads>>

GetUser(user_id) ==
    /\ resp' = [op |-> "get_user", user_id |-> user_id, result |-> Return(get_user(user_id))]
    /\ UNCHANGED <<store_vars, engine_schedules, engine_statuses, main_module, threads>>

\* self.user_schedules[user_id] read through the defaultdict
IndexOf(index, user_id) == IF user_id \in DOMAIN index THEN index[user_id] ELSE <<>>

\* the /schedule POST handler builds the Schedule (fresh uuid4, the session's user id)
\* and calls add_schedule
AddSchedule(user_id, course_code, day, start_time, end_time) ==
    LET schedule == Schedule(n_schedules + 1, user_id, course_code, day, start_time, end_time) IN
    /\ schedules' = DictSet(schedules, schedule.id, schedule)
    /\ user_schedules' = DictSet(user_schedules, schedule.user_id,
                                 Append(IndexOf(user_schedules, schedule.user_id), schedule.id))
    /\ n_schedules' = n_schedules + 1
    /\ resp' = [op |-> "add_schedule", user_id |-> user_id, result |-> Return(schedule)]
    /\ UNCHANGED <<users, n_users, user_statuses, n_updates, engine_schedules, engine_statuses, main_module, threads>>

NotAuthorized == Raised("ValueError", "Not authorized to remove this schedule")

NotFound == Raised("ValueError", "Schedule not found")

\* [sid for sid in ids if sid != schedule_id]
WithoutId(ids, schedule_id) == SelectSeq(ids, LAMBDA sid : sid # schedule_id)

\* a slip: the ownership test is missing
RemoveScheduleNoOwnerCheck(schedule_id, user_id) ==
    IF schedule_id \in DOMAIN schedules
    THEN /\ schedules' = DictDel(schedules, schedule_id)
         /\ user_schedules' = DictSet(user_schedules, user_id,
                                      WithoutId(IndexOf(user_schedules, user_id), schedule_id))
         /\ resp' = [op |-> "remove_schedule", schedule_id |-> schedule_id,
                     user_id |-> user_id, result |-> Return(None)]
         /\ UNCHANGED <<users, n_users, n_schedules, user_statuses, n_updates,
                        engine_schedules, engine_statuses, main_module, threads>>
    ELSE /\ resp' = [op |-> "remove_schedule", schedule_id |-> schedule_id,
                     user_id |-> user_id, result |-> NotFound]
         /\ UNCHANGED <<store_vars, engine_schedules, engine_statuses, main_module, threads>>

RemoveSchedule(schedule_id, user_id) ==
    IF schedule_id \in DOMAIN schedules
    THEN IF schedules[schedule_id].user_id = user_id
         THEN /\ schedules' = DictDel(schedules, schedule_id)
              /\ user_schedules' = DictSet(user_schedules, user_id,
                                           WithoutId(IndexOf(user_schedules, user_id), schedule_id))
              /\ resp' = [op |-> "remove_schedule", schedule_id |-> schedule_id,
                          user_id |-> user_id, result |-> Return(None)]
              /\ UNCHANGED <<users, n_users, n_schedules, user_statuses, n_updates,
                             engine_schedules, engine_statuses, main_module, threads>>
         ELSE /\ resp' = [op |-> "remove_schedule", schedule_id |-> schedule_id,
                          user_id |-> user_id, result |-> NotAuthorized]
              /\ UNCHANGED <<store_vars, engine_schedules, engine_statuses, main_module, threads>>
    ELSE /\ resp' = [op |-> "remove_schedule", schedule_id |-> schedule_id,
                     user_id |-> user_id, result |-> NotFound]
         /\ UNCHANGED <<store_vars, engine_schedules, engine_statuses, main_module, threads>>

\* [self.schedules[sid] for sid in self.user_schedules.get(user_id, []) if sid in self.schedules]
get_user_schedules(user_id) ==
    LET schedule_ids == IF user_id \in DOMAIN user_schedules THEN user_schedules[user_id] ELSE <<>>
        kept == SelectSeq(schedule_ids, LAMBDA sid : sid \in DOMAIN schedules)
    IN [i \in 1..Len(kept) |-> schedules[kept[i]]]

\* a slip: the index is read with self.user_schedules[user_id]; the
\* defaultdict stores an empty list under a key it does not have
GetUserSchedulesSubscript(user_id) ==
    /\ resp' = [op |-> "get_user_schedules", user_id |-> user_id,
                result |-> Return(get_user_schedules(user_id))]
    /\ user_schedules' = DictSet(user_schedules, user_id, IndexOf(user_schedules, user_id))
    /\ UNCHANGED <<users, n_users, schedules, n_schedules, user_statuses, n_updates,
                   engine_schedules, engine_statuses, main_module, threads>>

GetUserSchedules(user_id) ==
    /\ resp' = [op |-> "get_user_schedules", user_id |-> user_id,
                result |-> Return(get_user_schedules(user_id))]
    /\ UNCHANGED <<store_vars, engine_schedules, engine_statuses, main_module, threads>>

(***************************************************************************)
(* services.py: StatusService (store part)                                 *)
(***************************************************************************)
\* lines 66-71: the object is made from a fresh uuid and the clock
NewUserStatus(user_id, status) == UserStatus(n_updates + 1, user_id, status, n_updates + 1)

\* a slip: an existing record gets the new tag but keeps its timestamp
StoreUserStatusInPlace(status_obj) ==
    DictSet(user_statuses, status_obj.user_id,
            IF status_obj.user_id \in DOMAIN user_statuses
            THEN [user_statuses[status_obj.user_id] EXCEPT !.manual_status = status_obj.manual_status]
            ELSE status_obj)

\* line 72: self.user_statuses[user_id] = status_obj
StoreUserStatus(status_obj) == DictSet(user_statuses, status_obj.user_id, status_obj)

\* the whole call, when no other thread runs in between
UpdateUserStatus(user_id, status) ==
    /\ user_statuses' = StoreUserStatus(NewUserStatus(user_id, status))
    /\ n_updates' = n_updates + 1
    /\ resp' = [op |-> "update_user_status", user_id |-> user_id, status |-> status,
                result |-> Return(None)]
    /\ UNCHANGED <<users, n_users, schedules, user_schedules, n_schedules,
                   engine_schedules, engine_statuses, main_module, threads>>

\* the call in a request thread, up to the point where the object is made ...
BeginUpdateUserStatus(thread, user_id, status) ==
    /\ thread \notin DOMAIN threads
    /\ threads' = DictSet(threads, thread, [status_obj |-> NewUserStatus(user_id, status)])
    /\ n_updates' = n_updates + 1
    /\ UNCHANGED <<users, n_users, schedules, user_schedules, n_schedules, user_statuses,
                   engine_schedules, engine_statuses, main_module, resp>>

\* ... and its assignment to the dict, after which the call returns
FinishUpdateUserStatus(thread) ==
    /\ thread \in DOMAIN threads
    /\ LET status_obj == threads[thread].status_obj IN
       /\ user_statuses' = StoreUserStatus(status_obj)
       /\ resp' = [op |-> "update_user_status", user_id |-> status_obj.user_id,
                   status |-> status_obj.manual_status, result |-> Return(None)]
    /\ threads' = DictDel(threads, thread)
    /\ UNCHANGED <<users, n_users, schedules, user_schedules, n_schedules, n_updates,
                   engine_schedules, engine_statuses, main_module>>

get_user_status(user_id) ==
    IF user_id \in DOMAIN user_statuses THEN user_statuses[user_id].manual_status ELSE "free"

GetUserStatus(user_id) ==
    /\ resp' = [op |-> "get_user_status", user_id |-> user_id,
                result |-> Return(get_user_status(user_id))]
    /\ UNCHANGED <<store_vars, engine_schedules, engine_statuses, main_module, threads>>

(***************************************************************************)
(* services.py: StatusService.get_current_status                           *)
(***************************************************************************)
\* Python truthiness of an Optional[str]
Truthy(x) == x # NoneStr /\ x # ""

\* lines 97-101 (and 198-202): the first entry of the day whose start_time <= current_time
\* <= end_time, compared as strings
RECURSIVE InlineCurrentClass(_, _, _)
InlineCurrentClass(scheds, current_day, current_time) ==
    IF scheds = <<>> THEN NoneStr
    ELSE LET schedule == Head(scheds) IN
         IF /\ schedule.day = current_day
            /\ StrLE(schedule.start_time, current_time)
            /\ StrLE(current_time, schedule.end_time)
         THEN schedule.course_code
         ELSE InlineCurrentClass(Tail(scheds), current_day, current_time)

\* min(future_schedules, key=lambda x: x.start_time): the first of the smallest
RECURSIVE MinByStartTime(_)
MinByStartTime(scheds) ==
    IF Len(scheds) = 1 THEN scheds[1]
    ELSE LET best == MinByStartTime(SubSeq(scheds, 1, Len(scheds) - 1))
             last == scheds[Len(scheds)]
         IN IF StrLT(last.start_time, best.start_time) THEN last ELSE best

\* hour, minute = map(int, time_str.split(':')) raises ValueError
FormatTimeRaises(time_str) ==
    LET parts == SplitColon(time_str) IN
    Len(parts) # 2 \/ ~IntParses(parts[1]) \/ ~IntParses(parts[2])

FormatTimeError == Raised("ValueError", "invalid literal for int() or wrong number of values to unpack")

\* StatusService._format_time: "HH:MM" to the 12-hour text
format_time(time_str) ==
    LET parts == SplitColon(time_str)
        hour == IntOf(parts[1])
        minute == IntOf(parts[2])
        ampm == IF hour < 12 THEN <<"A", "M">> ELSE <<"P", "M">>
        display_hour0 == IF hour <= 12 THEN hour ELSE hour - 12
        display_hour == IF display_hour0 = 0 THEN 12 ELSE display_hour0
    IN StrOfInt(display_hour) \o <<":">> \o Pad2(minute) \o <<" ">> \o ampm

\* a slip: the classes of every day count as today's
FutureSchedulesAnyDay(scheds, current_day, current_time) ==
    SelectSeq(scheds, LAMBDA s : StrLT(current_time, s.start_time))

\* lines 104-105 (and 205-206)
FutureSchedules(scheds, current_day, current_time) ==
    LET today_schedules == SelectSeq(scheds, LAMBDA s : s.day = current_day)
    IN SelectSeq(today_schedules, LAMBDA s : StrLT(current_time, s.start_time))

\* lines 106-108 (and 207-209); the label f"{course_code} @ {time}" is kept as its two parts
InlineNextClass(scheds, current_day, current_time) ==
    LET future_schedules == FutureSchedules(scheds, current_day, current_time) IN
    IF future_schedules = <<>> THEN None
    ELSE LET next_schedule == MinByStartTime(future_schedules) IN
         IF FormatTimeRaises(next_schedule.start_time)
         THEN FormatTimeError
         ELSE [course_code |-> next_schedule.course_code,
               at |-> format_time(next_schedule.start_time)]

\* the body of the loop over the users, lines 90-118
StatusBoardUser(user, now) ==
    LET user_status == get_user_status(user.id)
        scheds == get_user_schedules(user.id)
    IN [id |-> user.id, username |-> user.username, major |-> user.major,
        manual_status |-> user_status,
        current_class |-> InlineCurrentClass(scheds, StrfDay(now), StrfHM(now)),
        next_class |-> InlineNextClass(scheds, StrfDay(now), StrfHM(now))]

\* a slip: the else is missing, a user in class is listed as free as well
BoardAppendNoElse(board, status_user) ==
    IF Truthy(status_user.current_class)
    THEN [board EXCEPT !.in_class = Append(@, status_user), !.free = Append(@, status_user)]
    ELSE [board EXCEPT !.free = Append(@, status_user)]

\* lines 120-123
BoardAppend(board, status_user) ==
    IF Truthy(status_user.current_class)
    THEN [board EXCEPT !.in_class = Append(@, status_user)]
    ELSE [board EXCEPT !.free = Append(@, status_user)]

\* the loop over schedule_service.users.items() from position i on
RECURSIVE BoardFrom(_, _, _)
BoardFrom(board, i, now) ==
    IF i > Len(users) THEN board
    ELSE LET status_user == StatusBoardUser(users[i], now) IN
         IF IsRaised(status_user.next_class) THEN status_user.next_class
         ELSE BoardFrom(BoardAppend(board, status_user), i + 1, now)

EmptyBoard(now) == [now |-> now, in_class |-> <<>>, free |-> <<>>]

get_current_status(now) ==
    LET board == BoardFrom(EmptyBoard(now), 1, now) IN
    IF IsRaised(board) THEN board ELSE Return(board)

\* now is what datetime.now() returns during the call
GetCurrentStatus(now) ==
    /\ resp' = [op |-> "get_current_status", now |-> now, result |-> get_current_status(now)]
    /\ UNCHANGED <<store_vars, engine_schedules, engine_statuses, main_module, threads>>

(***************************************************************************)
(* services.py: StatusService.get_current_status, one loop pass at a time, *)
(* as a request thread runs it while other request threads use the stores  *)
(* (app.py:231 and Flask's threaded development server; no lock anywhere).  *)
(* The dict iterator remembers the size of the dict when it is created and *)
(* checks it whenever the next item is asked for.                          *)
(***************************************************************************)
DictChangedSize == Raised("RuntimeError", "dictionary changed size during iteration")

\* the number of completed mutations of the three stores so far
Mutations == n_users + n_schedules + n_updates + (n_schedules - Cardinality(DOMAIN schedules))

\* lines 81-90: the locals of the call when the loop is entered.  at_start and
\* mutations_at_start are not locals: they record what a build over the stores
\* as they are now returns, and how many mutations had completed.
BeginGetCurrentStatus(now) ==
    /\ "get_current_status" \notin DOMAIN threads
    /\ threads' = DictSet(threads, "get_current_status",
                          [now |-> now, di_used |-> Len(users), di_pos |-> 0,
                           board |-> EmptyBoard(now),
                           at_start |-> get_current_status(now),
                           mutations_at_start |-> Mutations])
    /\ UNCHANGED <<store_vars, engine_schedules, engine_statuses, main_module, resp>>

\* one next() of the iterator of users.items() and the loop body (lines 90-123),
\* or the return after the last item (lines 125-129)
StepGetCurrentStatus ==
    /\ "get_current_status" \in DOMAIN threads
    /\ LET frame == threads["get_current_status"]
           finish(outcome) ==
               /\ resp' = [op |-> "get_current_status", now |-> frame.now, result |-> outcome]
               /\ threads' = DictDel(threads, "get_current_status")
       IN IF Len(users) # frame.di_used THEN finish(DictChangedSize)
          ELSE IF frame.di_pos >= Len(users) THEN finish(Return(frame.board))
          ELSE LET status_user == StatusBoardUser(users[frame.di_pos + 1], frame.now) IN
               IF IsRaised(status_user.next_class) THEN finish(status_user.next_class)
               ELSE /\ threads' = DictSet(threads, "get_current_status",
                                          [frame EXCEPT !.di_pos = @ + 1,
                                                        !.board = BoardAppend(@, status_user)])
                    /\ resp' = resp
    /\ UNCHANGED <<store_vars, engine_schedules, engine_statuses, main_module>>

(***************************************************************************)
(* services.py: RecommendationService.get_recommendations                  *)
(***************************************************************************)
\* set(s.course_code for s in scheds)
CourseSet(scheds) == {scheds[i].course_code : i \in 1..Len(scheds)}

\* list(a_set): the elements once each, in the set's iteration order; order is
\* the iteration order of the process (a sequence listing every course code once)
ListOfSet(a_set, order) == SelectSeq(order, LAMBDA c : c \in a_set)

MajorBonus == 15
StatusBonus == 10
SharedClassScore == 20
TopN == 5

BonusStatuses == {"studying", "help", "free"}

\* a slip: free is left out of the statuses that earn the bonus
ScoreWithoutFree(shared_classes, user, other_user, other_status) ==
    Len(shared_classes) * SharedClassScore
    + (IF user.major = other_user.major THEN MajorBonus ELSE 0)
    + (IF other_status \in {"studying", "help"} THEN StatusBonus ELSE 0)

\* lines 169-179
Score(shared_classes, user, other_user, other_status) ==
    Len(shared_classes) * SharedClassScore
    + (IF user.major = other_user.major THEN MajorBonus ELSE 0)
    + (IF other_status \in BonusStatuses THEN StatusBonus ELSE 0)

\* a slip: the status part is put in front of the major part
ReasonStatusFirst(shared_classes, user, other_user, other_status) ==
    << <<"Shares", Len(shared_classes),
         IF Len(shared_classes) > 1 THEN "classes" ELSE "class", "with you">> >>
    \o (IF other_status = "help" THEN << <<"Available to help">> >>
        ELSE IF other_status = "studying" THEN << <<"Currently studying">> >>
        ELSE <<>>)
    \o (IF user.major = other_user.major THEN << <<"Same major", user.major>> >> ELSE <<>>)

\* lines 181-188; the text is kept as the list of its parts
Reason(shared_classes, user, other_user, other_status) ==
    << <<"Shares", Len(shared_classes),
         IF Len(shared_classes) > 1 THEN "classes" ELSE "class", "with you">> >>
    \o (IF user.major = other_user.major THEN << <<"Same major", user.major>> >> ELSE <<>>)
    \o (IF other_status = "help" THEN << <<"Available to help">> >>
        ELSE IF other_status = "studying" THEN << <<"Currently studying">> >>
        ELSE <<>>)

\* a slip: a list comprehension instead of the set intersection, one element
\* for every entry of the candidate
SharedClassesPerEntry(user_id, other_user_id, order) ==
    LET mine == CourseSet(get_user_schedules(user_id))
        theirs == get_user_schedules(other_user_id)
        kept == SelectSeq(theirs, LAMBDA s : s.course_code \in mine)
    IN [i \in 1..Len(kept) |-> kept[i].course_code]

\* lines 161-164
SharedClasses(user_id, other_user_id, order) ==
    ListOfSet(CourseSet(get_user_schedules(user_id))
                  \cap CourseSet(get_user_schedules(other_user_id)), order)

\* lines 169-221 for one candidate that shares a class
StudyPartner(user, other_user, now, order) ==
    LET other_schedules == get_user_schedules(other_user.id)
        shared_classes == SharedClasses(user.id, other_user.id, order)
        other_status == get_user_status(other_user.id)
        current_class == InlineCurrentClass(other_schedules, StrfDay(now), StrfHM(now))
        next_class == IF ~Truthy(current_class)
                      THEN InlineNextClass(other_schedules, StrfDay(now), StrfHM(now))
                      ELSE None
    IN [id |-> other_user.id, username |-> other_user.username, major |-> other_user.major,
        score |-> Score(shared_classes, user, other_user, other_status),
        shared_classes |-> shared_classes,
        current_class |-> current_class,
        next_class |-> next_class,
        reason |-> Reason(shared_classes, user, other_user, other_status)]

\* a slip: the requesting user is not skipped
IsCandidateWithSelf(user_id, i, order) ==
    SharedClasses(user_id, users[i].id, order) # <<>>

\* lines 157-167: is the user at position i a candidate at all
IsCandidate(user_id, i, order) ==
    /\ users[i].id # user_id
    /\ SharedClasses(user_id, users[i].id, order) # <<>>

\* the loop over schedule_service.users.items() from position i on
RECURSIVE RecommendationsFrom(_, _, _, _, _)
RecommendationsFrom(recommendations, i, user, now, order) ==
    IF i > Len(users) THEN Return(recommendations)
    ELSE IF ~IsCandidate(user.id, i, order)
    THEN RecommendationsFrom(recommendations, i + 1, user, now, order)
    ELSE LET partner == StudyPartner(user, users[i], now, order) IN
         IF IsRaised(partner.next_class) THEN partner.next_class
         ELSE RecommendationsFrom(Append(recommendations, partner), i + 1, user, now, order)

\* a slip: an unstable sort, x goes before the elements of its own score
RECURSIVE InsertByScoreUnstable(_, _)
InsertByScoreUnstable(sorted, x) ==
    IF sorted = <<>> THEN <<x>>
    ELSE IF Head(sorted).score > x.score
         THEN <<Head(sorted)>> \o InsertByScoreUnstable(Tail(sorted), x)
         ELSE <<x>> \o sorted

\* one pass of a stable sort, highest score first: x goes behind every element
\* whose score is not smaller
RECURSIVE InsertByScore(_, _)
InsertByScore(sorted, x) ==
    IF sorted = <<>> THEN <<x>>
    ELSE IF Head(sorted).score >= x.score
         THEN <<Head(sorted)>> \o InsertByScore(Tail(sorted), x)
         ELSE <<x>> \o sorted

\* recommendations.sort(key=lambda x: x.score, reverse=True)
RECURSIVE SortByScore(_)
SortByScore(recommendations) ==
    IF recommendations = <<>> THEN <<>>
    ELSE InsertByScore(SortByScore(SubSeq(recommendations, 1, Len(recommendations) - 1)),
                       recommendations[Len(recommendations)])

\* recommendations[:5]
Top(recommendations) ==
    SubSeq(recommendations, 1, IF Len(recommendations) < TopN THEN Len(recommendations) ELSE TopN)

get_recommendations(user_id, now, order) ==
    LET user == get_user(user_id) IN
    IF user = None THEN Return(<<>>)
    ELSE LET recommendations == RecommendationsFrom(<<>>, 1, user, now, order) IN
         IF IsRaised(recommendations) THEN recommendations
         ELSE Return(Top(SortByScore(recommendations.returned)))

GetRecommendations(user_id, now, order) ==
    /\ resp' = [op |-> "get_recommendations", user_id |-> user_id, now |-> now,
                result |-> get_recommendations(user_id, now, order)]
    /\ UNCHANGED <<store_vars, engine_schedules, engine_statuses, main_module, threads>>

(***************************************************************************)
(* app.py: the query surfaces.  Neither the handlers nor the service       *)
(* methods take an instant: whatever instant the caller wants the answer   *)
(* for, the build reads the clock (services.py:81 and 191).                *)
(***************************************************************************)
ApiStatusBoard(wanted, clock) ==
    /\ resp' = [op |-> "get_current_status", supplied |-> wanted, now |-> clock,
                result |-> get_current_status(clock)]
    /\ UNCHANGED <<store_vars, engine_schedules, engine_statuses, main_module, threads>>

ApiRecommendations(user_id, wanted, clock, order) ==
    /\ resp' = [op |-> "get_recommendations", user_id |-> user_id, supplied |-> wanted,
                now |-> clock, result |-> get_recommendations(user_id, clock, order)]
    /\ UNCHANGED <<store_vars, engine_schedules, engine_statuses, main_module, threads>>

\* services.py:79 and :145, "from app import schedule_service": when app.py
\* runs under the name "app" this is the module whose handlers fill the
\* stores; when it runs as a script the module is "__main__", the import
\* executes app.py a second time, and the schedule_service of that copy
\* (app.py:21) is the one the loop reads: no handler of the copy ever runs, so
\* its user store stays empty
ReadsServedStores == main_module = "app"

\* /api/status-board as the running server answers it
ServedStatusBoard(clock) ==
    /\ resp' = [op |-> "get_current_status", now |-> clock,
                result |-> IF ReadsServedStores THEN get_current_status(clock)
                           ELSE Return(EmptyBoard(clock))]
    /\ UNCHANGED <<store_vars, engine_schedules, engine_statuses, main_module, threads>>

\* /api/recommendations as the running server answers it: in the copy
\* get_user finds nobody, line 149 returns []
ServedRecommendations(user_id, clock, order) ==
    /\ resp' = [op |-> "get_recommendations", user_id |-> user_id, now |-> clock,
                result |-> IF ReadsServedStores THEN get_recommendations(user_id, clock, order)
                           ELSE Return(<<>>)]
    /\ UNCHANGED <<store_vars, engine_schedules, engine_statuses, main_module, threads>>

(***************************************************************************)
(* app.py: the /status handler                                             *)
(***************************************************************************)
\* session without 'user_id'
NotLoggedIn == [logged_in |-> FALSE]

LoggedIn(user_id) == [logged_in |-> TRUE, user_id |-> user_id]

\* the body of a POST: a form or a JSON object, with the value under 'status'
\* (NoneStr when the key is missing), or neither of the two
FormBody(value) == [kind |-> "form", status |-> value]

JsonBody(value) == [kind |-> "json", status |-> value]

NoBody == [kind |-> "none"]

\* jsonify({'error': ...}), code
HttpError(code) == [error |-> code]

\* lines 93-97: request.form.get('status') or request.json.get('status')
PostedStatus(body) == IF body.kind = "none" THEN NoneStr ELSE body.status

\* POST /status; with neither a form nor JSON, request.json answers None or
\* ends the request with 415, depending on the Flask release: code is the one
\* of the two that this build gives
StatusPost(session, body, code) ==
    IF ~session.logged_in
    THEN /\ resp' = [op |-> "status", method |-> "POST", session |-> session,
                     body |-> body, result |-> HttpError(401)]
         /\ UNCHANGED <<store_vars, engine_schedules, engine_statuses, main_module, threads>>
    ELSE IF body.kind = "none" /\ code # 400
    THEN /\ resp' = [op |-> "status", method |-> "POST", session |-> session,
                     body |-> body, result |-> HttpError(code)]
         /\ UNCHANGED <<store_vars, engine_schedules, engine_statuses, main_module, threads>>
    ELSE IF PostedStatus(body) \notin StatusType
    THEN /\ resp' = [op |-> "status", method |-> "POST", session |-> session,
                     body |-> body, result |-> HttpError(400)]
         /\ UNCHANGED <<store_vars, engine_schedules, engine_statuses, main_module, threads>>
    ELSE /\ user_statuses' = StoreUserStatus(NewUserStatus(session.user_id, PostedStatus(body)))
         /\ n_updates' = n_updates + 1
         /\ resp' = [op |-> "status", method |-> "POST", session |-> session,
                     body |-> body,
                     result |-> Return([success |-> TRUE, status |-> PostedStatus(body)])]
         /\ UNCHANGED <<users, n_users, schedules, user_schedules, n_schedules,
                        engine_schedules, engine_statuses, main_module, threads>>

\* GET /status
StatusGet(session) ==
    /\ resp' = [op |-> "status", method |-> "GET", session |-> session,
                result |-> IF ~session.logged_in THEN HttpError(401)
                           ELSE Return([status |-> get_user_status(session.user_id)])]
    /\ UNCHANGED <<store_vars, engine_schedules, engine_statuses, main_module, threads>>

(***************************************************************************)
(* The state after construction (app.py:21-24, algorithm.py:56-60)         *)
(***************************************************************************)
NoResponse == [op |-> "none"]

Init ==
    /\ users = <<>>
    /\ n_users = 0
    /\ schedules = EmptyDict
    /\ user_schedules = EmptyDict
    /\ n_schedules = 0
    /\ user_statuses = EmptyDict
    /\ n_updates = 0
    /\ engine_schedules = EmptyDict
    /\ engine_statuses = EmptyDict
    /\ main_module = "app"
    /\ threads = EmptyDict
    /\ resp = NoResponse

(***************************************************************************)
(* Spec: the user and schedule stores, one request at a time               *)
(***************************************************************************)
MaxUsers == 2
MaxSchedules == 2
MaxUpdates == 2

Usernames == {"alice", "bob"}
Majors == {"CS", "MATH"}

\* a session cookie outlives the process: its user id may be unknown to the stores
UnknownUserIds == {0}
SessionUserIds == UserIds \cup UnknownUserIds

\* clock times as the schedule form and strftime write them
HM(h, m) == Pad2(h) \o <<":">> \o Pad2(m)

Login ==
    \E username \in Usernames, major \in Majors :
        /\ MatchingUsers(username, major) # {} \/ n_users < MaxUsers
        /\ CreateOrGetUser(username, major)

LookupUser == \E user_id \in SessionUserIds : GetUser(user_id)

PostSchedule ==
    \E user_id \in SessionUserIds :
        /\ n_schedules < MaxSchedules
        /\ AddSchedule(user_id, "CS 15-122", "monday", HM(9, 0), HM(10, 20))

DeleteSchedule ==
    \E schedule_id \in 1..MaxSchedules, user_id \in SessionUserIds :
        RemoveSchedule(schedule_id, user_id)

ListSchedules == \E user_id \in SessionUserIds : GetUserSchedules(user_id)

ReadStatus == \E user_id \in SessionUserIds : GetUserStatus(user_id)

Next ==
    \/ Login
    \/ LookupUser
    \/ PostSchedule
    \/ DeleteSchedule
    \/ ListSchedules

Spec == Init /\ [][Next]_vars

(***************************************************************************)
(* Inputs shared by the query specifications.  Usernames are only compared *)
(* for equality, so the k-th student to register is given the k-th name;   *)
(* where a specification says so, students use the service one after the   *)
(* other (register, enter the timetable, set a status), which reaches      *)
(* every content of the stores up to the naming of the uuids.              *)
(***************************************************************************)
Names == <<"alice", "bob", "carol", "david", "emma", "frank", "grace", "heidi", "ivan">>

LastUserId == n_users

Register(major, limit) ==
    /\ n_users < limit
    /\ n_users < Len(Names)
    /\ CreateOrGetUser(Names[n_users + 1], major)

Courses == {"CS 15-122", "MATH 21-127"}

\* the orders in which a set of course codes can be iterated
CourseOrders == {<<"CS 15-122", "MATH 21-127">>, <<"MATH 21-127", "CS 15-122">>}

Noon == [day |-> "monday", hour |-> 12, minute |-> 0]

(***************************************************************************)
(* SpecStatus: the status store, with updates of several request threads   *)
(* in flight at the same time                                              *)
(***************************************************************************)
StatusRegister == Register("CS", MaxUsers)

\* a tag that earns the availability bonus and one that does not
StatusTags == {"studying", "busy"}

\* every request runs in a thread of its own, named here by the number of the request
PostStatusBegin ==
    \E user_id \in SessionUserIds, status \in StatusTags :
        /\ n_updates < MaxUpdates
        /\ BeginUpdateUserStatus(n_updates + 1, user_id, status)

PostStatusFinish == \E thread \in DOMAIN threads : FinishUpdateUserStatus(thread)

NextStatus ==
    \/ StatusRegister
    \/ PostStatusBegin
    \/ PostStatusFinish
    \/ ReadStatus

SpecStatus == Init /\ [][NextStatus]_vars

(***************************************************************************)
(* SpecBoard: the status board over users with timetables                  *)
(***************************************************************************)
BoardDays == {"monday", "tuesday"}

\* two overlapping classes and one that starts when the first ends
BoardSlots ==
    {[course_code |-> "CS 15-122", start_time |-> HM(9, 0), end_time |-> HM(10, 20)],
     [course_code |-> "MATH 21-127", start_time |-> HM(9, 30), end_time |-> HM(11, 0)],
     [course_code |-> "CS 15-150", start_time |-> HM(10, 20), end_time |-> HM(11, 50)]}

\* before, at the start of, inside, at the end of and after a class; another day
BoardInstants ==
    {[day |-> "monday", hour |-> t[1], minute |-> t[2]] :
        t \in {<<8, 30>>, <<9, 0>>, <<9, 30>>, <<10, 20>>, <<12, 0>>}}
    \cup {[day |-> "tuesday", hour |-> 9, minute |-> 30]}

BoardRegister == Register("CS", MaxUsers)

BoardPostSchedule ==
    \E user_id \in SessionUserIds, day \in BoardDays, slot \in BoardSlots :
        /\ n_schedules < MaxSchedules
        /\ AddSchedule(user_id, slot.course_code, day, slot.start_time, slot.end_time)

BoardQuery == \E now \in BoardInstants : GetCurrentStatus(now)

NextBoard ==
    \/ BoardRegister
    \/ BoardPostSchedule
    \/ BoardQuery

SpecBoard == Init /\ [][NextBoard]_vars

(***************************************************************************)
(* SpecRecs: who is recommended, over courses held on different days       *)
(***************************************************************************)
RecUsers == 3
RecSchedules == 3

RecOptions ==
    {[course_code |-> "CS 15-122", day |-> "monday"],
     [course_code |-> "CS 15-122", day |-> "friday"],
     [course_code |-> "MATH 21-127", day |-> "monday"]}

RecRegister == Register("CS", RecUsers)

RecPostSchedule ==
    \E user_id \in UserIds, option \in RecOptions :
        /\ n_schedules < RecSchedules
        /\ AddSchedule(user_id, option.course_code, option.day, HM(9, 0), HM(10, 20))

RecQuery ==
    \E user_id \in SessionUserIds, order \in CourseOrders :
        GetRecommendations(user_id, Noon, order)

NextRecs ==
    \/ RecRegister
    \/ RecPostSchedule
    \/ RecQuery

SpecRecs == Init /\ [][NextRecs]_vars

(***************************************************************************)
(* SpecScore: the score, over majors, shared courses and statuses;         *)
(* students use the service one after the other, each entering a course    *)
(* once                                                                    *)
(***************************************************************************)
ScoreUsers == 2
ScoreSchedules == 4
ScoreUpdates == 1

\* majors are only compared for equality: the first student's is fixed
ScoreRegister ==
    \E major \in (IF n_users = 0 THEN {"CS"} ELSE Majors) : Register(major, ScoreUsers)

ScorePostSchedule ==
    \E course_code \in Courses :
        /\ n_users > 0
        /\ n_schedules < ScoreSchedules
        /\ course_code \notin CourseSet(get_user_schedules(LastUserId))
        /\ AddSchedule(LastUserId, course_code, "monday", HM(9, 0), HM(10, 20))

ScorePostStatus ==
    \E status \in StatusType :
        /\ n_users > 1
        /\ n_updates < ScoreUpdates
        /\ UpdateUserStatus(LastUserId, status)

ScoreQuery ==
    \E user_id \in UserIds, order \in CourseOrders :
        GetRecommendations(user_id, Noon, order)

NextScore ==
    \/ ScoreRegister
    \/ ScorePostSchedule
    \/ ScorePostStatus
    \/ ScoreQuery

SpecScore == Init /\ [][NextScore]_vars

(***************************************************************************)
(* SpecRank: the order and the length of the list, over more candidates    *)
(* than are returned; students use the service one after the other, each   *)
(* entering one class                                                      *)
(***************************************************************************)
RankUsers == 7

RankRegister ==
    \E major \in Majors :
        /\ n_users > 0 => IndexOf(user_schedules, LastUserId) # <<>>
        /\ Register(major, RankUsers)

RankPostSchedule ==
    /\ n_users > 0
    /\ IndexOf(user_schedules, LastUserId) = <<>>
    /\ AddSchedule(LastUserId, "CS 15-122", "monday", HM(9, 0), HM(10, 20))

RankQuery ==
    \E user_id \in UserIds :
        GetRecommendations(user_id, Noon, <<"CS 15-122", "MATH 21-127">>)

NextRank ==
    \/ RankRegister
    \/ RankPostSchedule
    \/ RankQuery

SpecRank == Init /\ [][NextRank]_vars

(***************************************************************************)
(* What the claims speak of, said without the code's loops                 *)
(***************************************************************************)
\* position of a user in the insertion order of the user store
UserPos(user_id) == CHOOSE i \in 1..Len(users) : users[i].id = user_id

\* the distinct course codes over all stored entries of a user, whatever their day
CoursesOf(user_id) ==
    {schedules[sid].course_code : sid \in {x \in DOMAIN schedules : schedules[x].user_id = user_id}}

StatusOrFree(user_id) ==
    IF user_id \in DOMAIN user_statuses THEN user_statuses[user_id].manual_status ELSE "free"

LastCall(op) == resp.op = op

Recs == resp.result.returned

(***************************************************************************)
(* C1: the list returned by get_recommendations never contains the         *)
(* requesting user (nor any user twice), and every returned candidate has  *)
(* a non-empty, duplicate-free shared_classes list whose elements are      *)
(* exactly the course codes that both the requester and the candidate have *)
(* among all their entries, whatever the day of those entries.             *)
(***************************************************************************)
C1_SharedClassesAreTheIntersection ==
    LastCall("get_recommendations") =>
        /\ ~IsRaised(resp.result)
        /\ \A i \in 1..Len(Recs) :
            LET shared == Recs[i].shared_classes IN
            /\ Recs[i].id # resp.user_id
            /\ Recs[i].id \in UserIds
            /\ shared # <<>>
            /\ \A j, k \in 1..Len(shared) : j # k => shared[j] # shared[k]
            /\ Range(shared) = CoursesOf(resp.user_id) \cap CoursesOf(Recs[i].id)
        /\ \A i, j \in 1..Len(Recs) : i # j => Recs[i].id # Recs[j].id

\* a candidate is returned although no course is held by both on the same day
C1_Witness ==
    /\ LastCall("get_recommendations")
    /\ ~IsRaised(resp.result)
    /\ \E i \in 1..Len(Recs) :
        \A a, b \in DOMAIN schedules :
            (/\ schedules[a].user_id = resp.user_id
             /\ schedules[b].user_id = Recs[i].id
             /\ schedules[a].course_code = schedules[b].course_code)
            => schedules[a].day # schedules[b].day

(***************************************************************************)
(* C2: the list returned by get_recommendations is sorted by score in      *)
(* non-increasing order, candidates of equal score keep the insertion      *)
(* order of the user store, the list has at most 5 elements, and it is the *)
(* head of the full sorted candidate list: a candidate that shares a       *)
(* course and is left out exists only when 5 are returned, and it ranks    *)
(* behind every returned one (lower score, or equal score and later in     *)
(* insertion order).                                                       *)
(***************************************************************************)
EligibleIds(user_id) ==
    {u \in UserIds : u # user_id /\ CoursesOf(user_id) \cap CoursesOf(u) # {}}

\* the score the code gives this candidate
ScoreOfCandidate(user_id, other_id, order) ==
    StudyPartner(get_user(user_id), get_user(other_id), Noon, order).score

RanksBehind(score_a, pos_a, score_b, pos_b) ==
    score_a < score_b \/ (score_a = score_b /\ pos_a > pos_b)

C2_SortedStableTopFive ==
    (LastCall("get_recommendations") /\ resp.user_id \in UserIds) =>
        /\ ~IsRaised(resp.result)
        /\ Len(Recs) <= 5
        /\ \A i, j \in 1..Len(Recs) :
            i < j => RanksBehind(Recs[j].score, UserPos(Recs[j].id),
                                 Recs[i].score, UserPos(Recs[i].id))
        /\ \A e \in EligibleIds(resp.user_id) \ {Recs[i].id : i \in 1..Len(Recs)} :
            /\ Len(Recs) = 5
            /\ \A i \in 1..Len(Recs) :
                RanksBehind(ScoreOfCandidate(resp.user_id, e, <<"CS 15-122", "MATH 21-127">>),
                            UserPos(e), Recs[i].score, UserPos(Recs[i].id))

\* six candidates of two different scores: one is cut off, ties are among the returned
C2_Witness ==
    /\ LastCall("get_recommendations")
    /\ resp.user_id \in UserIds
    /\ Cardinality(EligibleIds(resp.user_id)) > 5
    /\ Len(Recs) = 5
    /\ Recs[1].score > Recs[5].score
    /\ \E i \in 1..4 : Recs[i].score = Recs[i + 1].score

(***************************************************************************)
(* C3: for every returned candidate, score = 20 * (number of shared course *)
(* codes) + 15 if requester and candidate have the same major + 10 if the  *)
(* candidate's status is studying, help or free, a candidate without a     *)
(* status record counting as free; nothing else contributes.               *)
(***************************************************************************)
C3_ScoreFormula ==
    LastCall("get_recommendations") =>
        /\ ~IsRaised(resp.result)
        /\ \A i \in 1..Len(Recs) :
            LET me == get_user(resp.user_id)
                other == get_user(Recs[i].id)
            IN Recs[i].score =
                  20 * Cardinality(CoursesOf(me.id) \cap CoursesOf(other.id))
                  + (IF me.major = other.major THEN 15 ELSE 0)
                  + (IF StatusOrFree(other.id) \in {"studying", "help", "free"} THEN 10 ELSE 0)

\* the spec's example: 2 shared courses, same major, status free, score 65;
\* here the candidate has no status record at all
C3_Witness ==
    /\ LastCall("get_recommendations")
    /\ \E i \in 1..Len(Recs) :
        /\ Recs[i].score = 65
        /\ Len(Recs[i].shared_classes) = 2
        /\ Recs[i].major = get_user(resp.user_id).major
        /\ Recs[i].id \notin DOMAIN user_statuses

(***************************************************************************)
(* C4: the status board is an order-preserving partition of the user       *)
(* population: every known user appears exactly once in in_class or free   *)
(* and no unknown user appears; a user is in in_class iff a current class  *)
(* was found for that user (the entry carries one); within each list the   *)
(* users are in the insertion order of the user store.                     *)
(***************************************************************************)
Board == resp.result.returned

BoardIds(list) == [i \in 1..Len(list) |-> list[i].id]

Occurrences(ids, user_id) == Cardinality({i \in 1..Len(ids) : ids[i] = user_id})

InInsertionOrder(ids) ==
    \A i, j \in 1..Len(ids) : i < j => UserPos(ids[i]) < UserPos(ids[j])

MinutesOf(now) == 60 * now.hour + now.minute

C4_BoardIsOrderedPartition ==
    LastCall("get_current_status") =>
        /\ ~IsRaised(resp.result)
        /\ LET in_ids == BoardIds(Board.in_class)
               free_ids == BoardIds(Board.free)
           IN /\ Range(in_ids) \cup Range(free_ids) = UserIds
              /\ \A u \in UserIds : Occurrences(in_ids, u) + Occurrences(free_ids, u) = 1
              /\ InInsertionOrder(in_ids)
              /\ InInsertionOrder(free_ids)
              /\ \A i \in 1..Len(Board.in_class) : Board.in_class[i].current_class # NoneStr
              /\ \A i \in 1..Len(Board.free) : Board.free[i].current_class = NoneStr

\* both buckets are used
C4_Witness ==
    /\ LastCall("get_current_status")
    /\ ~IsRaised(resp.result)
    /\ Len(Board.in_class) >= 1
    /\ Len(Board.free) >= 1

(***************************************************************************)
(* C7: remove_schedule(schedule_id, user_id) deletes the entry only when   *)
(* it exists and is owned by user_id; a call by a non-owner ends in the    *)
(* authorization failure, a call with an absent id in the not-found        *)
(* failure, the two differ (by their message), and both leave the schedule *)
(* store and the per-user index as they were.  So whenever an entry        *)
(* disappears from the store, the step was its owner's remove_schedule.    *)
(***************************************************************************)
RemoveStep ==
    LET sid == resp'.schedule_id
        uid == resp'.user_id
    IN IF sid \in DOMAIN schedules /\ schedules[sid].user_id = uid
       THEN /\ resp'.result = Return(None)
            /\ DOMAIN schedules' = DOMAIN schedules \ {sid}
            /\ \A x \in DOMAIN schedules' : schedules'[x] = schedules[x]
            /\ sid \notin Range(IndexOf(user_schedules', uid))
            /\ \A u \in DOMAIN user_schedules \ {uid} : user_schedules'[u] = user_schedules[u]
       ELSE /\ schedules' = schedules
            /\ user_schedules' = user_schedules
            /\ resp'.result = IF sid \in DOMAIN schedules THEN NotAuthorized ELSE NotFound
            /\ IsRaised(resp'.result)

RemovedOnlyByOwner ==
    \A sid \in DOMAIN schedules \ DOMAIN schedules' :
        /\ resp'.op = "remove_schedule"
        /\ resp'.schedule_id = sid
        /\ resp'.user_id = schedules[sid].user_id

C7_RemoveOnlyByOwner ==
    [][/\ NotAuthorized # NotFound
       /\ resp'.op = "remove_schedule" => RemoveStep
       /\ RemovedOnlyByOwner]_vars

\* a known user who is not the owner has just been refused; the entry is still there
C7_Witness ==
    /\ LastCall("remove_schedule")
    /\ resp.result = NotAuthorized
    /\ resp.user_id \in UserIds
    /\ resp.schedule_id \in DOMAIN schedules
    /\ resp.schedule_id \in Range(IndexOf(user_schedules, schedules[resp.schedule_id].user_id))

(***************************************************************************)
(* C8: under every interleaving of update_user_status calls each user has  *)
(* at most one status record, filed under the user's own id; a completing  *)
(* update stores its tag together with its own timestamp (never the new    *)
(* tag with the timestamp that was stored) and leaves every other user's   *)
(* record as it was; nothing else changes a status; get_user_status        *)
(* returns the stored tag, which is that of the update of the user that    *)
(* completed last, or free when the user has no record, which is the case  *)
(* until an update of the user completes.                                  *)
(***************************************************************************)
UpdateFinishes == \E thread \in DOMAIN threads : thread \notin DOMAIN threads'

UpdateStep ==
    LET u == resp'.user_id IN
    /\ resp'.op = "update_user_status"
    /\ DOMAIN user_statuses' = DOMAIN user_statuses \cup {u}
    /\ user_statuses'[u].user_id = u
    /\ user_statuses'[u].manual_status = resp'.status
    /\ \A v \in DOMAIN user_statuses :
          user_statuses[v].last_updated # user_statuses'[u].last_updated
    /\ \A v \in DOMAIN user_statuses \ {u} : user_statuses'[v] = user_statuses[v]

C8_StatusStep ==
    /\ UpdateFinishes => UpdateStep
    /\ ~UpdateFinishes => user_statuses' = user_statuses
    /\ (resp' # resp /\ resp'.op = "get_user_status") =>
          resp'.result = Return(StatusOrFree(resp'.user_id))

C8_StatusState ==
    /\ n_updates = 0 => DOMAIN user_statuses = {}
    /\ \A u \in DOMAIN user_statuses : user_statuses[u].user_id = u
    /\ \A u, v \in DOMAIN user_statuses :
          user_statuses[u].last_updated = user_statuses[v].last_updated => u = v

C8_OneStatusLatestWins == []C8_StatusState /\ [][C8_StatusStep]_vars

\* two updates of one user were in flight together, the one made first completed
\* last and is the one read back, while another user still has no record
C8_Witness ==
    /\ LastCall("get_user_status")
    /\ threads = EmptyDict
    /\ n_updates = 2
    /\ DOMAIN user_statuses = {resp.user_id}
    /\ user_statuses[resp.user_id].last_updated = 1
    /\ resp.result = Return(user_statuses[resp.user_id].manual_status)
    /\ Len(users) = 2

(***************************************************************************)
(* C10: no two stored users have the same (username, major) pair; a call   *)
(* of create_or_get_user with a stored pair returns that stored user and   *)
(* leaves the user store unchanged; a call with a new pair appends exactly *)
(* one user with a new id; a stored user's id, name and major never        *)
(* change, and users are never removed.                                    *)
(***************************************************************************)
UniquePairs ==
    \A i, j \in 1..Len(users) :
        (users[i].username = users[j].username /\ users[i].major = users[j].major) => i = j

LoginStep ==
    LET stored == {i \in 1..Len(users) :
                      users[i].username = resp'.username /\ users[i].major = resp'.major}
    IN IF stored # {}
       THEN /\ users' = users
            /\ \E i \in stored : resp'.result = Return(users[i])
       ELSE /\ Len(users') = Len(users) + 1
            /\ resp'.result = Return(users'[Len(users')])
            /\ users'[Len(users')].username = resp'.username
            /\ users'[Len(users')].major = resp'.major
            /\ users'[Len(users')].id \notin UserIds

C10_UserStep ==
    /\ Len(users') >= Len(users)
    /\ \A i \in 1..Len(users) : users'[i] = users[i]
    /\ resp'.op = "create_or_get_user" => LoginStep
    /\ resp'.op # "create_or_get_user" => users' = users

C10_InsertIfAbsent == []UniquePairs /\ [][C10_UserStep]_vars

\* the first user has logged in again after a second one was created
C10_Witness ==
    /\ LastCall("create_or_get_user")
    /\ Len(users) = 2
    /\ resp.result = Return(users[1])

(***************************************************************************)
(* Timetables for the resolver and the board: a class, one that starts     *)
(* with it, one written without the leading zero, one that ends after      *)
(* midnight (a calendar import writes it as 22:00 to 01:00), another day   *)
(***************************************************************************)
ClassInfos ==
    {ClassInfo("CS 15-122", "monday", HM(9, 0), HM(10, 20)),
     ClassInfo("MATH 21-127", "monday", HM(9, 0), HM(9, 50)),
     ClassInfo("CS 15-150", "monday", <<"9", ":", "3", "0">>, HM(11, 0)),
     ClassInfo("CS 15-213", "monday", HM(22, 0), HM(1, 0)),
     ClassInfo("CS 15-122", "tuesday", HM(9, 0), HM(10, 20))}

TimetableInstants ==
    {[day |-> "monday", hour |-> t[1], minute |-> t[2]] :
        t \in {<<8, 30>>, <<9, 0>>, <<9, 30>>, <<10, 0>>, <<10, 20>>, <<23, 30>>}}
    \cup {[day |-> "tuesday", hour |-> 8, minute |-> 30]}

SeqsUpTo(S, n) == UNION {[1..k -> S] : k \in 0..n}

(***************************************************************************)
(* SpecResolver: the engine's table is reloaded from schedules.json, whose *)
(* content is not under the program's control, and the resolver is asked   *)
(***************************************************************************)
ResolverEntries == 2

ScheduleFiles ==
    {EmptyDict} \cup
    {[user_id \in {"alice"} |-> [userId |-> "alice", schedule |-> schedule]] :
        schedule \in SeqsUpTo(ClassInfos, ResolverEntries)}

ResolverUserIds == {"alice", "bob"}

ResolverRefresh == \E file \in ScheduleFiles : RefreshData(file, EmptyDict)

ResolverCurrentClass ==
    \E user_id \in ResolverUserIds, now \in TimetableInstants :
        GetCurrentClassForUser(user_id, now)

ResolverNextClass ==
    \E user_id \in ResolverUserIds, now \in TimetableInstants :
        GetNextClassForUser(user_id, now)

NextResolver ==
    \/ ResolverRefresh
    \/ ResolverCurrentClass
    \/ ResolverNextClass

SpecResolver == Init /\ [][NextResolver]_vars

(***************************************************************************)
(* SpecTimetable: the status board over timetables as POST /schedule       *)
(* stores them (app.py:137-146 keeps the posted strings as they are)       *)
(***************************************************************************)
TimetableUsers == 1
TimetableSchedules == 2

TimetableRegister == Register("CS", TimetableUsers)

TimetablePostSchedule ==
    \E user_id \in UserIds, info \in ClassInfos :
        /\ n_schedules < TimetableSchedules
        /\ AddSchedule(user_id, info.courseCode, info.day, info.startTime, info.endTime)

TimetableQuery == \E now \in TimetableInstants : GetCurrentStatus(now)

NextTimetable ==
    \/ TimetableRegister
    \/ TimetablePostSchedule
    \/ TimetableQuery

SpecTimetable == Init /\ [][NextTimetable]_vars

(***************************************************************************)
(* SpecThreads: a status board build runs pass by pass while other request *)
(* threads log in, enter and remove classes and set statuses               *)
(***************************************************************************)
ThreadUsers == 2
ThreadSchedules == 1
ThreadUpdates == 1

ThreadInstant == [day |-> "monday", hour |-> 9, minute |-> 30]

ThreadRegister == Register("CS", ThreadUsers)

ThreadPostSchedule ==
    \E user_id \in UserIds :
        /\ n_schedules < ThreadSchedules
        /\ AddSchedule(user_id, "CS 15-122", "monday", HM(9, 0), HM(10, 20))

ThreadDeleteSchedule ==
    \E schedule_id \in DOMAIN schedules : RemoveSchedule(schedule_id, schedules[schedule_id].user_id)

ThreadPostStatus ==
    \E user_id \in UserIds :
        /\ n_updates < ThreadUpdates
        /\ UpdateUserStatus(user_id, "busy")

ThreadBeginBoard == BeginGetCurrentStatus(ThreadInstant)

ThreadStepBoard == StepGetCurrentStatus

NextThreads ==
    \/ ThreadRegister
    \/ ThreadPostSchedule
    \/ ThreadDeleteSchedule
    \/ ThreadPostStatus
    \/ ThreadBeginBoard
    \/ ThreadStepBoard

SpecThreads == Init /\ [][NextThreads]_vars

(***************************************************************************)
(* Timetable entries as the claims speak of them, whichever table holds    *)
(* them: in store order, with start and end as minutes of the day          *)
(***************************************************************************)
EngineEntries(user_id) ==
    LET list == EngineUserSchedule(user_id) IN
    [i \in 1..Len(list) |->
        [course |-> list[i].courseCode, day |-> list[i].day,
         start_text |-> list[i].startTime, end_text |-> list[i].endTime,
         start |-> time_to_minutes(list[i].startTime),
         end |-> time_to_minutes(list[i].endTime)]]

StoreEntries(user_id) ==
    LET list == get_user_schedules(user_id) IN
    [i \in 1..Len(list) |->
        [course |-> list[i].course_code, day |-> list[i].day,
         start_text |-> list[i].start_time, end_text |-> list[i].end_time,
         start |-> time_to_minutes(list[i].start_time),
         end |-> time_to_minutes(list[i].end_time)]]

\* the entry is on the reference day and its closed interval holds the reference
\* time; an interval whose end lies before its start runs over midnight
ContainsInstant(entry, now) ==
    /\ entry.day = now.day
    /\ IF entry.end < entry.start
       THEN MinutesOf(now) >= entry.start \/ MinutesOf(now) <= entry.end
       ELSE entry.start <= MinutesOf(now) /\ MinutesOf(now) <= entry.end

\* positions of the entries that are the current class: the first that contains the instant
CurrentEntries(entries, now) ==
    {i \in 1..Len(entries) :
        /\ ContainsInstant(entries[i], now)
        /\ \A j \in 1..(i - 1) : ~ContainsInstant(entries[j], now)}

\* positions of the entries of the reference day that start later than the instant
LaterEntries(entries, now) ==
    {i \in 1..Len(entries) : entries[i].day = now.day /\ entries[i].start > MinutesOf(now)}

\* positions of the entries that are the next class: the earliest start, the
\* earliest in store order among those
NextEntries(entries, now) ==
    {i \in LaterEntries(entries, now) :
        \A j \in LaterEntries(entries, now) :
            \/ entries[i].start < entries[j].start
            \/ entries[i].start = entries[j].start /\ i <= j}

BoardUsers == Board.in_class \o Board.free

(***************************************************************************)
(* C5: the current class of a user at a reference instant is the first     *)
(* entry, in store order, that is on the reference day and whose closed    *)
(* interval [start, end] contains the reference time (start and end        *)
(* included, the earlier entry when several overlap); without such an      *)
(* entry the user is free.  This is said of get_current_class_for_user     *)
(* over the engine's table, and of every entry of the status board over    *)
(* the schedule store.                                                     *)
(***************************************************************************)
C5_ResolverCurrentClass ==
    LastCall("get_current_class_for_user") =>
        LET entries == EngineEntries(resp.user_id)
            current == CurrentEntries(entries, resp.now)
        IN IF current = {}
           THEN resp.result = Return(<<"Free">>)
           ELSE \E i \in current : resp.result = Return(<<"In", entries[i].course>>)

C5_BoardCurrentClass ==
    LastCall("get_current_status") =>
        /\ ~IsRaised(resp.result)
        /\ \A k \in 1..Len(BoardUsers) :
              LET entries == StoreEntries(BoardUsers[k].id)
                  current == CurrentEntries(entries, resp.now)
              IN IF current = {}
                 THEN BoardUsers[k].current_class = NoneStr
                 ELSE \E i \in current : BoardUsers[k].current_class = entries[i].course

C5_CurrentClassIsFirstContaining == C5_ResolverCurrentClass /\ C5_BoardCurrentClass

(***************************************************************************)
(* C6: the next class of a user at a reference instant is, among the       *)
(* entries of the reference day whose start is strictly later than the     *)
(* reference time, the one with the earliest start, the earliest in store  *)
(* order when several start together; without such an entry there is no    *)
(* next class.  This is said of get_next_class_for_user over the engine's  *)
(* table, and of the next-class label of every entry of the status board.  *)
(***************************************************************************)
C6_ResolverNextClass ==
    LastCall("get_next_class_for_user") =>
        LET entries == EngineEntries(resp.user_id)
            next == NextEntries(entries, resp.now)
        IN IF next = {}
           THEN resp.result = Return(None)
           ELSE \E i \in next :
                   resp.result = Return([courseCode |-> entries[i].course,
                                         startTime |-> entries[i].start_text,
                                         endTime |-> entries[i].end_text])

C6_BoardNextClass ==
    LastCall("get_current_status") =>
        /\ ~IsRaised(resp.result)
        /\ \A k \in 1..Len(BoardUsers) :
              LET entries == StoreEntries(BoardUsers[k].id)
                  next == NextEntries(entries, resp.now)
              IN IF next = {}
                 THEN BoardUsers[k].next_class = None
                 ELSE \E i \in next :
                         BoardUsers[k].next_class =
                             [course_code |-> entries[i].course,
                              at |-> format_time(entries[i].start_text)]

C6_NextClassIsEarliestLater == C6_ResolverNextClass /\ C6_BoardNextClass

(***************************************************************************)
(* C9: a status board build that runs while other request handlers insert  *)
(* a user, add or remove a class or update a status is not corrupted: it   *)
(* does not fail, and when at most one mutation completed while it ran,    *)
(* what it returns is what a build over the stores before that mutation or *)
(* over the stores after it returns.                                       *)
(***************************************************************************)
C9_ScanFinishes ==
    /\ "get_current_status" \in DOMAIN threads
    /\ "get_current_status" \notin DOMAIN threads'

C9_ScanStep ==
    C9_ScanFinishes =>
        LET frame == threads["get_current_status"] IN
        /\ ~IsRaised(frame.at_start) => ~IsRaised(resp'.result)
        /\ Mutations - frame.mutations_at_start <= 1 =>
              resp'.result \in {frame.at_start, get_current_status(frame.now)}

C9_ScanSeesASnapshot == [][C9_ScanStep]_vars

(***************************************************************************)
(* SpecClock: callers ask for derivations at an instant of their choice    *)
(* while the wall clock shows another                                      *)
(***************************************************************************)
ClockSchedules == 1

ClockInstants ==
    {[day |-> "monday", hour |-> 9, minute |-> 30],
     [day |-> "monday", hour |-> 12, minute |-> 0]}

ClockInfos ==
    {ClassInfo("CS 15-122", "monday", HM(9, 0), HM(10, 20)),
     ClassInfo("CS 15-122", "monday", HM(13, 0), HM(14, 20))}

ClockFiles ==
    {EmptyDict} \cup
    {[user_id \in {"alice"} |-> [userId |-> "alice", schedule |-> schedule]] :
        schedule \in SeqsUpTo(ClockInfos, ClockSchedules)}

ClockRefresh == \E file \in ClockFiles : RefreshData(file, EmptyDict)

ClockRegister == Register("CS", MaxUsers)

ClockPostSchedule ==
    \E user_id \in UserIds, info \in ClockInfos :
        /\ n_schedules < ClockSchedules
        /\ AddSchedule(user_id, info.courseCode, info.day, info.startTime, info.endTime)

ClockCurrentClass ==
    \E now \in ClockInstants \cup {None}, clock \in ClockInstants :
        CallGetCurrentClassForUser("alice", now, clock)

ClockNextClass ==
    \E now \in ClockInstants \cup {None}, clock \in ClockInstants :
        CallGetNextClassForUser("alice", now, clock)

ClockBoard ==
    \E wanted \in ClockInstants \cup {None}, clock \in ClockInstants :
        ApiStatusBoard(wanted, clock)

ClockRecommendations ==
    \E user_id \in UserIds, wanted \in ClockInstants \cup {None}, clock \in ClockInstants,
       order \in CourseOrders :
        ApiRecommendations(user_id, wanted, clock, order)

NextClock ==
    \/ ClockRefresh
    \/ ClockRegister
    \/ ClockPostSchedule
    \/ ClockCurrentClass
    \/ ClockNextClass
    \/ ClockBoard
    \/ ClockRecommendations

SpecClock == Init /\ [][NextClock]_vars

(***************************************************************************)
(* C11: the reference instant is an input of every derivation and the      *)
(* result depends on nothing but the stores and that instant: when a       *)
(* derivation is asked twice in a row for the same instant (and the same   *)
(* user) and no store changed in between, the two results are the same,    *)
(* whatever the wall clock showed during the calls.                        *)
(***************************************************************************)
C11_SameRequest ==
    /\ "supplied" \in DOMAIN resp
    /\ "supplied" \in DOMAIN resp'
    /\ resp'.op = resp.op
    /\ resp'.supplied = resp.supplied
    /\ resp.supplied # None
    /\ "user_id" \in DOMAIN resp => resp'.user_id = resp.user_id
    /\ UNCHANGED <<store_vars, engine_schedules, engine_statuses, main_module>>

\* what a call derived; of a board its two lists, the now field left aside
C11_Derived(call) ==
    IF call.op = "get_current_status" /\ ~IsRaised(call.result)
    THEN <<call.result.returned.in_class, call.result.returned.free>>
    ELSE <<call.result>>

C11_Step == C11_SameRequest => C11_Derived(resp') = C11_Derived(resp)

C11_ResultDependsOnInstantOnly == [][C11_Step]_vars

\* the same for the resolver of algorithm.py alone
C11_ResolverStep ==
    (C11_SameRequest /\ resp.op \in {"get_current_class_for_user", "get_next_class_for_user"})
        => C11_Derived(resp') = C11_Derived(resp)

C11_ResolverDependsOnInstantOnly == [][C11_ResolverStep]_vars

(***************************************************************************)
(* The time utilities on their own, over strings put together from fields   *)
(***************************************************************************)
\* the most fields, separated by ':', a time string is made of
TimeFields == 3

\* what stands between the colons: padded and unpadded numbers, numbers out of
\* range, signed numbers, the empty string and text that is no number
FieldTexts ==
    { <<>>, <<"0">>, <<"0", "0">>, <<"9">>, <<"0", "9">>, <<"2", "3">>,
      <<"2", "4">>, <<"3", "0">>, <<"5", "9">>, <<"6", "0">>,
      <<"-", "1">>, <<"-", "0">>, <<"a">>, <<"1", "a">>, <<"1", "-">> }

\* ':'.join(fields)
RECURSIVE JoinColon(_)
JoinColon(fields) ==
    IF Len(fields) = 1 THEN fields[1]
    ELSE fields[1] \o <<":">> \o JoinColon(Tail(fields))

\* times of day as is_time_between is handed them: padded, unpadded, midnight,
\* an hour out of range and text without a colon
BetweenTexts ==
    { <<"0", "8", ":", "0", "0">>, <<"0", "9", ":", "0", "0">>,
      <<"9", ":", "0", "0">>, <<"1", "0", ":", "0", "0">>,
      <<"1", "1", ":", "0", "0">>, <<"2", "2", ":", "0", "0">>,
      <<"2", "3", ":", "3", "0">>, <<"0", "0", ":", "0", "0">>,
      <<"0", "1", ":", "0", "0">>, <<"2", "4", ":", "0", "0">>,
      <<"i", "n", "v", "a", "l", "i", "d">> }

\* the calls a run starts with: the arguments are drawn, nothing has been
\* computed yet
TimeCalls ==
    { [op |-> "call", fields |-> fields] :
          fields \in UNION { [1..n -> FieldTexts] : n \in 1..TimeFields } }
    \cup
    { [op |-> "call", current |-> current, start |-> start, end |-> end] :
          current \in BetweenTexts, start \in BetweenTexts, end \in BetweenTexts }

InitTimes ==
    /\ users = <<>>
    /\ n_users = 0
    /\ schedules = EmptyDict
    /\ user_schedules = EmptyDict
    /\ n_schedules = 0
    /\ user_statuses = EmptyDict
    /\ n_updates = 0
    /\ engine_schedules = EmptyDict
    /\ engine_statuses = EmptyDict
    /\ main_module = "app"
    /\ threads = EmptyDict
    /\ resp \in TimeCalls

TimesToMinutes ==
    /\ resp.op = "call" /\ "fields" \in DOMAIN resp
    /\ resp' = [op |-> "time_to_minutes", fields |-> resp.fields,
                time_str |-> JoinColon(resp.fields),
                result |-> Return(time_to_minutes(JoinColon(resp.fields)))]
    /\ UNCHANGED <<store_vars, engine_schedules, engine_statuses, main_module, threads>>

TimesIsBetween ==
    /\ resp.op = "call" /\ "current" \in DOMAIN resp
    /\ resp' = [op |-> "is_time_between", current |-> resp.current,
                start |-> resp.start, end |-> resp.end,
                result |-> Return(is_time_between(resp.current, resp.start, resp.end))]
    /\ UNCHANGED <<store_vars, engine_schedules, engine_statuses, main_module, threads>>

NextTimes == TimesToMinutes \/ TimesIsBetween

SpecTimes == InitTimes /\ [][NextTimes]_vars

\* the integer a field text denotes, read off a table; no entry for text that
\* denotes none
FieldIsInteger(field) == field \notin { <<>>, <<"a">>, <<"1", "a">>, <<"1", "-">> }

FieldInteger(field) ==
    CASE field = <<"0">> -> 0
      [] field = <<"0", "0">> -> 0
      [] field = <<"9">> -> 9
      [] field = <<"0", "9">> -> 9
      [] field = <<"2", "3">> -> 23
      [] field = <<"2", "4">> -> 24
      [] field = <<"3", "0">> -> 30
      [] field = <<"5", "9">> -> 59
      [] field = <<"6", "0">> -> 60
      [] field = <<"-", "1">> -> 0 - 1
      [] field = <<"-", "0">> -> 0

\* the fields are an hour in 0..23 and a minute in 0..59
IsHourMinute(fields) ==
    /\ Len(fields) = 2
    /\ FieldIsInteger(fields[1]) /\ FieldInteger(fields[1]) \in 0..23
    /\ FieldIsInteger(fields[2]) /\ FieldInteger(fields[2]) \in 0..59

\* C12: time_to_minutes never raises and returns a number in 0..1439: for an
\* hour in 0..23 and a minute in 0..59 separated by one colon it returns
\* 60*hour + minute, for every other string it returns 0
C12_TimeToMinutesTotal ==
    LastCall("time_to_minutes") =>
        /\ ~IsRaised(resp.result)
        /\ resp.result.returned \in 0..1439
        /\ resp.result.returned =
               IF IsHourMinute(resp.fields)
               THEN 60 * FieldInteger(resp.fields[1]) + FieldInteger(resp.fields[2])
               ELSE 0

\* "09:30" has given 570
C12_Witness ==
    /\ LastCall("time_to_minutes")
    /\ resp.time_str = <<"0", "9", ":", "3", "0">>
    /\ resp.result = Return(570)

\* "24:00" has given 0
C12_WitnessOutOfRange ==
    /\ LastCall("time_to_minutes")
    /\ resp.time_str = <<"2", "4", ":", "0", "0">>
    /\ resp.result = Return(0)

\* minutes since midnight of the times handed to is_time_between, read off a
\* table; what is no time of day counts as 0
BetweenMinutes(text) ==
    CASE text = <<"0", "8", ":", "0", "0">> -> 480
      [] text = <<"0", "9", ":", "0", "0">> -> 540
      [] text = <<"9", ":", "0", "0">> -> 540
      [] text = <<"1", "0", ":", "0", "0">> -> 600
      [] text = <<"1", "1", ":", "0", "0">> -> 660
      [] text = <<"2", "2", ":", "0", "0">> -> 1320
      [] text = <<"2", "3", ":", "3", "0">> -> 1410
      [] text = <<"0", "0", ":", "0", "0">> -> 0
      [] text = <<"0", "1", ":", "0", "0">> -> 60
      [] text = <<"2", "4", ":", "0", "0">> -> 0
      [] text = <<"i", "n", "v", "a", "l", "i", "d">> -> 0

\* C13: with c, s, e the minutes of its arguments, is_time_between returns
\* s <= c <= e when e >= s and (c >= s or c <= e) when e < s, endpoints included
C13_IsTimeBetween ==
    LastCall("is_time_between") =>
        LET c == BetweenMinutes(resp.current)
            s == BetweenMinutes(resp.start)
            e == BetweenMinutes(resp.end)
        IN resp.result =
               Return(IF e >= s THEN s <= c /\ c <= e ELSE c >= s \/ c <= e)

\* "23:30" has been found within "22:00" to "01:00"
C13_Witness ==
    /\ LastCall("is_time_between")
    /\ resp.current = <<"2", "3", ":", "3", "0">>
    /\ resp.start = <<"2", "2", ":", "0", "0">>
    /\ resp.end = <<"0", "1", ":", "0", "0">>
    /\ resp.result = Return(TRUE)

\* "08:00" has been found outside "09:00" to "11:00"
C13_WitnessOutside ==
    /\ LastCall("is_time_between")
    /\ resp.current = <<"0", "8", ":", "0", "0">>
    /\ resp.start = <<"0", "9", ":", "0", "0">>
    /\ resp.end = <<"1", "1", ":", "0", "0">>
    /\ resp.result = Return(FALSE)

(***************************************************************************)
(* SpecDayOff: the resolver over the engine's table and the status board   *)
(* over the schedule store, asked on days on which a user has classes and  *)
(* on days on which the user has none                                      *)
(***************************************************************************)
DayOffUsers == 2
DayOffSchedules == 1
DayOffEntries == 1

\* a morning class, a class that ends after midnight, a class on another day
DayOffInfos ==
    {ClassInfo("CS 15-122", "monday", HM(9, 0), HM(10, 20)),
     ClassInfo("CS 15-213", "monday", HM(22, 0), HM(1, 0)),
     ClassInfo("MATH 21-127", "tuesday", HM(9, 0), HM(10, 20))}

DayOffInstants ==
    {[day |-> "monday", hour |-> 9, minute |-> 30],
     [day |-> "tuesday", hour |-> 0, minute |-> 30],
     [day |-> "tuesday", hour |-> 8, minute |-> 30],
     [day |-> "wednesday", hour |-> 9, minute |-> 30]}

DayOffFiles ==
    {EmptyDict} \cup
    {[user_id \in {"alice"} |-> [userId |-> "alice", schedule |-> schedule]] :
        schedule \in SeqsUpTo(DayOffInfos, DayOffEntries)}

DayOffRefresh == \E file \in DayOffFiles : RefreshData(file, EmptyDict)

DayOffCurrentClass ==
    \E user_id \in ResolverUserIds, now \in DayOffInstants :
        GetCurrentClassForUser(user_id, now)

DayOffNextClass ==
    \E user_id \in ResolverUserIds, now \in DayOffInstants :
        GetNextClassForUser(user_id, now)

DayOffRegister == Register("CS", DayOffUsers)

DayOffPostSchedule ==
    \E user_id \in UserIds, info \in DayOffInfos :
        /\ n_schedules < DayOffSchedules
        /\ AddSchedule(user_id, info.courseCode, info.day, info.startTime, info.endTime)

DayOffBoard == \E now \in DayOffInstants : GetCurrentStatus(now)

NextDayOff ==
    \/ DayOffRefresh
    \/ DayOffCurrentClass
    \/ DayOffNextClass
    \/ DayOffRegister
    \/ DayOffPostSchedule
    \/ DayOffBoard

SpecDayOff == Init /\ [][NextDayOff]_vars

\* none of the entries is on the day
NoneOnDay(entries, day) == \A i \in 1..Len(entries) : entries[i].day # day

\* C14: a user without entries on the reference day (with none at all, or
\* unknown to the store) has current class free and next class absent, and is
\* listed by the status board as free without a next-class label; no error
C14_ResolverDayOff ==
    /\ LastCall("get_current_class_for_user")
           /\ NoneOnDay(EngineEntries(resp.user_id), resp.now.day)
       => resp.result = Return(<<"Free">>)
    /\ LastCall("get_next_class_for_user")
           /\ NoneOnDay(EngineEntries(resp.user_id), resp.now.day)
       => resp.result = Return(None)

C14_BoardDayOff ==
    LastCall("get_current_status") =>
        /\ ~IsRaised(resp.result)
        /\ \A u \in 1..Len(users) :
              NoneOnDay(StoreEntries(users[u].id), resp.now.day) =>
                  /\ \A k \in 1..Len(Board.in_class) : Board.in_class[k].id # users[u].id
                  /\ \E k \in 1..Len(Board.free) :
                        /\ Board.free[k].id = users[u].id
                        /\ Board.free[k].current_class = NoneStr
                        /\ Board.free[k].next_class = None

C14_FreeOnDayOff == C14_ResolverDayOff /\ C14_BoardDayOff

\* the board of a Tuesday lists as free, with no label, a user whose only class
\* is on Monday and a user with no class at all
C14_Witness ==
    /\ LastCall("get_current_status")
    /\ resp.now.day = "tuesday"
    /\ Len(users) = 2
    /\ \E u, v \in 1..Len(users) :
          /\ StoreEntries(users[u].id) = <<>>
          /\ StoreEntries(users[v].id) # <<>>
          /\ NoneOnDay(StoreEntries(users[v].id), "tuesday")
    /\ Len(Board.free) = 2

\* the resolver has answered for a user whose only class is on another day
C14_WitnessResolver ==
    /\ LastCall("get_next_class_for_user")
    /\ EngineEntries(resp.user_id) # <<>>
    /\ NoneOnDay(EngineEntries(resp.user_id), resp.now.day)
    /\ resp.result = Return(None)

\* the resolver has answered for a user the table does not know
C14_WitnessUnknown ==
    /\ LastCall("get_current_class_for_user")
    /\ resp.user_id \notin DOMAIN engine_schedules
    /\ engine_schedules # EmptyDict
    /\ resp.result = Return(<<"Free">>)

(***************************************************************************)
(* C15: get_recommendations returns the empty list, raises nothing and     *)
(* changes no store when the requesting user id is not in the user store,  *)
(* when the requesting user has no schedule entries, and when the          *)
(* requesting user shares no course code with any other user.              *)
(***************************************************************************)
\* no other stored user has a course code of the user's
SharesWithNobody(user_id) ==
    \A i \in 1..Len(users) :
        users[i].id # user_id => CoursesOf(user_id) \cap CoursesOf(users[i].id) = {}

C15_NothingToRecommend ==
    LastCall("get_recommendations") /\ SharesWithNobody(resp.user_id)
        => resp.result = Return(<<>>)

C15_QueryStep ==
    resp'.op = "get_recommendations" /\ resp' # resp => UNCHANGED <<store_vars, engine_schedules, engine_statuses, main_module>>

C15_EmptyWithoutEffect == []C15_NothingToRecommend /\ [][C15_QueryStep]_vars

\* an unknown user id has been answered while other users had classes
C15_Witness ==
    /\ LastCall("get_recommendations")
    /\ resp.user_id \notin UserIds
    /\ n_schedules > 0
    /\ resp.result = Return(<<>>)

\* a user without entries has been answered while other users had classes
C15_WitnessNoEntries ==
    /\ LastCall("get_recommendations")
    /\ resp.user_id \in UserIds
    /\ CoursesOf(resp.user_id) = {}
    /\ n_schedules > 0
    /\ resp.result = Return(<<>>)

\* a user with entries has been answered whose course no other user has
C15_WitnessNoneShared ==
    /\ LastCall("get_recommendations")
    /\ CoursesOf(resp.user_id) # {}
    /\ \E i \in 1..Len(users) : users[i].id # resp.user_id /\ CoursesOf(users[i].id) # {}
    /\ SharesWithNobody(resp.user_id)
    /\ resp.result = Return(<<>>)

(***************************************************************************)
(* SpecSurface: logins and requests to /status, with and without a         *)
(* session, with the six tags and with other values                        *)
(***************************************************************************)
SurfaceUsers == 1
SurfaceUpdates == 1

SurfaceRegister == Register("CS", SurfaceUsers)

\* the session cookie outlives the stores: it can name a user the store does
\* not hold
SurfaceSessions == {NotLoggedIn} \cup {LoggedIn(user_id) : user_id \in SessionUserIds}

\* what a client can send under 'status': a tag, no key, the empty string, a
\* word that is no tag, a tag in capitals
PostedValues == StatusType \cup {NoneStr, "", "sleeping", "FREE"}

SurfaceBodies ==
    {NoBody} \cup {FormBody(value) : value \in PostedValues}
             \cup {JsonBody(value) : value \in PostedValues}

SurfacePostStatus ==
    \E session \in SurfaceSessions, body \in SurfaceBodies, code \in {400, 415} :
        /\ session.logged_in /\ PostedStatus(body) \in StatusType
               => n_updates < SurfaceUpdates
        /\ StatusPost(session, body, code)

SurfaceGetStatus == \E session \in SurfaceSessions : StatusGet(session)

NextSurface ==
    \/ SurfaceRegister
    \/ SurfacePostStatus
    \/ SurfaceGetStatus

SpecSurface == Init /\ [][NextSurface]_vars

(***************************************************************************)
(* C16: the status update surface accepts exactly the six tags studying,   *)
(* free, help, busy, tired, social; a request with any other value, a      *)
(* missing value included, is rejected and leaves the status store         *)
(* unchanged, so every stored status is one of the six tags.               *)
(***************************************************************************)
SixTags == {"studying", "free", "help", "busy", "tired", "social"}

C16_StoredTags ==
    \A user_id \in DOMAIN user_statuses : user_statuses[user_id].manual_status \in SixTags

\* the step is a POST to /status of a logged-in client
C16_PostStep ==
    /\ resp'.op = "status" /\ resp'.method = "POST" /\ resp'.session.logged_in
    /\ resp' # resp \/ n_updates' # n_updates

C16_Step ==
    C16_PostStep =>
        IF PostedStatus(resp'.body) \in SixTags
        THEN /\ ~("error" \in DOMAIN resp'.result)
             /\ resp'.session.user_id \in DOMAIN user_statuses'
             /\ user_statuses'[resp'.session.user_id].manual_status = PostedStatus(resp'.body)
        ELSE /\ "error" \in DOMAIN resp'.result
             /\ UNCHANGED user_statuses

C16_OnlySixTags == []C16_StoredTags /\ [][C16_Step]_vars

\* a tag has been stored and a word that is no tag has then been turned down
C16_Witness ==
    /\ resp.op = "status" /\ resp.method = "POST" /\ resp.session.logged_in
    /\ PostedStatus(resp.body) = "sleeping"
    /\ resp.result = HttpError(400)
    /\ resp.session.user_id \in DOMAIN user_statuses
    /\ user_statuses[resp.session.user_id].manual_status = "busy"

\* a request without a value has been turned down
C16_WitnessMissing ==
    /\ resp.op = "status" /\ resp.method = "POST" /\ resp.session.logged_in
    /\ PostedStatus(resp.body) = NoneStr
    /\ "error" \in DOMAIN resp.result

(***************************************************************************)
(* C17: the status board and the recommendations decide a user's current   *)
(* class as the resolver of algorithm.py does: current_class is present    *)
(* iff some entry of the reference day contains the reference time in the  *)
(* closed interval as is_time_between decides it on minutes (overnight     *)
(* intervals and times without a leading zero included), and it names the  *)
(* first such entry in store order.                                        *)
(***************************************************************************)
\* a user's stored entries in the form the resolver reads
ResolverView(scheds) ==
    [i \in 1..Len(scheds) |->
        ClassInfo(scheds[i].course_code, scheds[i].day, scheds[i].start_time,
                  scheds[i].end_time)]

\* what the resolver's loop says over the user's stored entries
ResolverAnswer(user_id, now) ==
    CurrentClassFrom(ResolverView(get_user_schedules(user_id)), StrfDay(now), StrfHM(now))

C17_BoardAsResolver ==
    LastCall("get_current_status") =>
        /\ ~IsRaised(resp.result)
        /\ \A k \in 1..Len(BoardUsers) :
              LET answer == ResolverAnswer(BoardUsers[k].id, resp.now) IN
              IF answer = <<"Free">>
              THEN BoardUsers[k].current_class = NoneStr
              ELSE BoardUsers[k].current_class = answer[2]

(***************************************************************************)
(* C18: current class takes priority over next class: in every entry of    *)
(* the status board and every recommended candidate next_class is computed *)
(* only when there is no current class, so an in_class entry carries no    *)
(* next_class label and the two are never both present.                    *)
(***************************************************************************)
C18_BoardPriority ==
    LastCall("get_current_status") /\ ~IsRaised(resp.result) =>
        /\ \A k \in 1..Len(Board.in_class) : Board.in_class[k].next_class = None
        /\ \A k \in 1..Len(BoardUsers) :
              ~(BoardUsers[k].current_class # NoneStr /\ BoardUsers[k].next_class # None)

C18_CandidatePriority ==
    LastCall("get_recommendations") /\ ~IsRaised(resp.result) =>
        \A k \in 1..Len(Recs) : ~(Recs[k].current_class # NoneStr /\ Recs[k].next_class # None)

C18_CurrentClassTakesPriority == C18_BoardPriority /\ C18_CandidatePriority

(***************************************************************************)
(* SpecAvailability: the engine's status table is reloaded from            *)
(* status.json, whose content is not under the program's control, and      *)
(* get_user_availability is asked                                          *)
(***************************************************************************)
AvailabilityUsers == 2

\* what status.json holds for a user: each of the values the code names, a
\* value it does not name, or a record without the key
StatusRecords ==
    {[manualStatus |-> value] :
        value \in {"social", "want to hang out", "tired", "busy", "studying", "help",
                   "free", "sleeping"}}
    \cup {[userId |-> "u"]}

StatusFiles ==
    UNION {[{Names[i] : i \in 1..n} -> StatusRecords] : n \in 0..AvailabilityUsers}

AvailabilityRefresh == \E status_file \in StatusFiles : RefreshData(EmptyDict, status_file)

\* the users of the file and one more
AvailabilityQuery ==
    \E i \in 1..(AvailabilityUsers + 1) : GetUserAvailability(Names[i])

NextAvailability == AvailabilityRefresh \/ AvailabilityQuery

SpecAvailability == Init /\ [][NextAvailability]_vars

(***************************************************************************)
(* C19: get_user_availability maps a user's status to preferences as a     *)
(* total function: social or "want to hang out" gives social high, study   *)
(* low; tired or busy gives low, low; studying or help gives study high,   *)
(* social low; free gives neutral, neutral; any other status value, and a  *)
(* user without a status record, gives neutral, neutral with the status    *)
(* reported as "unknown".                                                  *)
(***************************************************************************)
\* the status table has a record of the user that names a status
HasStatus(user_id) ==
    /\ user_id \in DOMAIN engine_statuses
    /\ "manualStatus" \in DOMAIN engine_statuses[user_id]

Answer == resp.result.returned

\* the preferences are those of the status; a record without the key counts as free
C19_Preferences ==
    LastCall("get_user_availability") =>
        LET status == IF HasStatus(resp.user_id)
                      THEN engine_statuses[resp.user_id].manualStatus
                      ELSE "none" IN
        /\ ~IsRaised(resp.result)
        /\ CASE status \in {"social", "want to hang out"} ->
                    Answer.social_preference = "high" /\ Answer.study_preference = "low"
             [] status \in {"tired", "busy"} ->
                    Answer.social_preference = "low" /\ Answer.study_preference = "low"
             [] status \in {"studying", "help"} ->
                    Answer.study_preference = "high" /\ Answer.social_preference = "low"
             [] OTHER ->
                    Answer.social_preference = "neutral" /\ Answer.study_preference = "neutral"

\* the status reported is the user's, and "unknown" for a value outside the
\* seven and for a user without a record
C19_StatusReported ==
    LastCall("get_user_availability") =>
        IF HasStatus(resp.user_id)
        THEN LET status == engine_statuses[resp.user_id].manualStatus IN
             IF status \in {"social", "want to hang out", "tired", "busy", "studying",
                            "help", "free"}
             THEN Answer.status = status
             ELSE Answer.status = "unknown"
        ELSE resp.user_id \notin DOMAIN engine_statuses => Answer.status = "unknown"

C19_AvailabilityTotal == C19_Preferences /\ C19_StatusReported

(***************************************************************************)
(* SpecRecent: the engine's table is reloaded and the resolver is asked    *)
(* for the class that has just ended                                       *)
(***************************************************************************)
RecentEntries == 2

\* two classes that end together, one that ends half an hour before them, one
\* that ends after midnight, one on another day
RecentInfos ==
    {ClassInfo("CS 15-122", "monday", HM(9, 0), HM(10, 20)),
     ClassInfo("CS 15-150", "monday", HM(9, 30), HM(10, 20)),
     ClassInfo("MATH 21-127", "monday", HM(9, 0), HM(9, 50)),
     ClassInfo("CS 15-213", "monday", HM(22, 0), HM(1, 0)),
     ClassInfo("CS 15-122", "tuesday", HM(9, 0), HM(10, 20))}

RecentInstants ==
    {[day |-> "monday", hour |-> t[1], minute |-> t[2]] :
        t \in {<<1, 30>>, <<9, 0>>, <<10, 20>>, <<10, 50>>, <<11, 19>>, <<11, 20>>}}
    \cup {[day |-> "tuesday", hour |-> 10, minute |-> 30]}

RecentFiles ==
    {EmptyDict} \cup
    {[user_id \in {"alice"} |-> [userId |-> "alice", schedule |-> schedule]] :
        schedule \in SeqsUpTo(RecentInfos, RecentEntries)}

RecentRefresh == \E file \in RecentFiles : RefreshData(file, EmptyDict)

RecentQuery ==
    \E user_id \in ResolverUserIds, now \in RecentInstants :
        GetRecentClassForUser(user_id, now)

NextRecent == RecentRefresh \/ RecentQuery

SpecRecent == Init /\ [][NextRecent]_vars

(***************************************************************************)
(* C20: among the user's entries on the reference day with                 *)
(* gap = reference minutes - end minutes and 0 < gap < 60, the recently    *)
(* ended class is the entry with the smallest gap, the first in store      *)
(* order when several have it, and it reports that gap; an entry that ends *)
(* at the reference time or exactly 60 minutes before it is never          *)
(* returned; when no entry qualifies the result is absent.                 *)
(***************************************************************************)
GapOf(entry, now) == MinutesOf(now) - entry.end

\* positions of the entries of the reference day that ended less than an hour ago
EndedEntries(entries, now) ==
    {i \in 1..Len(entries) :
        /\ entries[i].day = now.day
        /\ 0 < GapOf(entries[i], now) /\ GapOf(entries[i], now) < 60}

\* those with the smallest gap, the earliest in store order among them
RecentEntriesOf(entries, now) ==
    {i \in EndedEntries(entries, now) :
        \A j \in EndedEntries(entries, now) :
            \/ GapOf(entries[i], now) < GapOf(entries[j], now)
            \/ GapOf(entries[i], now) = GapOf(entries[j], now) /\ i <= j}

C20_WitnessHourAgo ==
    /\ LastCall("get_recent_class_for_user")
    /\ \E i \in 1..Len(EngineEntries(resp.user_id)) :
          /\ EngineEntries(resp.user_id)[i].day = resp.now.day
          /\ GapOf(EngineEntries(resp.user_id)[i], resp.now) = 60
    /\ resp.result = Return(None)

\* a class that ends at the reference time has not been returned
C20_WitnessJustNow ==
    /\ LastCall("get_recent_class_for_user")
    /\ \E i \in 1..Len(EngineEntries(resp.user_id)) :
          /\ EngineEntries(resp.user_id)[i].day = resp.now.day
          /\ GapOf(EngineEntries(resp.user_id)[i], resp.now) = 0
    /\ resp.result = Return(None)

(***************************************************************************)
(* C21: the reason of every candidate is built in a fixed order: first the *)
(* shared-class part with the number of shared courses (plural iff more    *)
(* than one), then the same-major part iff the majors match, then at most  *)
(* one status part: "Available to help" iff the candidate's status is      *)
(* help, otherwise "Currently studying" iff it is studying; never both,    *)
(* and none for free, busy, tired, social or an absent status.             *)
(***************************************************************************)
\* the parts the reason of a candidate is to have, in their order
ExpectedReason(me, other) ==
    LET shared == Cardinality(CoursesOf(me.id) \cap CoursesOf(other.id))
        status == StatusOrFree(other.id)
        shares == <<"Shares", shared, IF shared > 1 THEN "classes" ELSE "class", "with you">>
        major == <<"Same major", me.major>>
    IN CASE status = "help" /\ me.major = other.major ->
                <<shares, major, <<"Available to help">> >>
         [] status = "help" /\ me.major # other.major ->
                <<shares, <<"Available to help">> >>
         [] status = "studying" /\ me.major = other.major ->
                <<shares, major, <<"Currently studying">> >>
         [] status = "studying" /\ me.major # other.major ->
                <<shares, <<"Currently studying">> >>
         [] status \notin {"help", "studying"} /\ me.major = other.major ->
                <<shares, major>>
         [] OTHER -> <<shares>>

C21_ReasonParts ==
    LastCall("get_recommendations") =>
        /\ ~IsRaised(resp.result)
        /\ \A i \in 1..Len(Recs) :
              Recs[i].reason = ExpectedReason(get_user(resp.user_id), get_user(Recs[i].id))

\* a candidate of the same major who shares two courses and offers help
C21_Witness ==
    /\ LastCall("get_recommendations")
    /\ \E i \in 1..Len(Recs) :
          /\ Len(Recs[i].reason) = 3
          /\ Recs[i].reason[1] = <<"Shares", 2, "classes", "with you">>
          /\ Recs[i].reason[3] = <<"Available to help">>

\* a candidate of another major who shares one course and has no status record
C21_WitnessBare ==
    /\ LastCall("get_recommendations")
    /\ \E i \in 1..Len(Recs) :
          /\ Recs[i].reason = << <<"Shares", 1, "class", "with you">> >>
          /\ Recs[i].id \notin DOMAIN user_statuses

(***************************************************************************)
(* SpecServed: the server as it runs, started by importing app.py or by    *)
(* running it as a script; users log in, enter and remove classes, set     *)
(* statuses, and the board and the recommendations are asked for           *)
(***************************************************************************)
ServedUsers == 2
ServedSchedules == 2
ServedUpdates == 1

InitServed ==
    /\ users = <<>>
    /\ n_users = 0
    /\ schedules = EmptyDict
    /\ user_schedules = EmptyDict
    /\ n_schedules = 0
    /\ user_statuses = EmptyDict
    /\ n_updates = 0
    /\ engine_schedules = EmptyDict
    /\ engine_statuses = EmptyDict
    /\ main_module \in {"app", "__main__"}
    /\ threads = EmptyDict
    /\ resp = NoResponse

ServedInstants == {[day |-> "monday", hour |-> 9, minute |-> 30], Noon}

ServedLogin == Register("CS", ServedUsers)

ServedPostSchedule ==
    \E user_id \in UserIds, course_code \in Courses :
        /\ n_schedules < ServedSchedules
        /\ AddSchedule(user_id, course_code, "monday", HM(9, 0), HM(10, 20))

ServedDeleteSchedule ==
    \E schedule_id \in DOMAIN schedules :
        RemoveSchedule(schedule_id, schedules[schedule_id].user_id)

ServedPostStatus ==
    \E user_id \in UserIds, status \in {"studying", "busy"} :
        /\ n_updates < ServedUpdates
        /\ UpdateUserStatus(user_id, status)

ServedBoard == \E clock \in ServedInstants : ServedStatusBoard(clock)

ServedPartners ==
    \E user_id \in UserIds, clock \in ServedInstants, order \in CourseOrders :
        ServedRecommendations(user_id, clock, order)

NextServed ==
    \/ ServedLogin
    \/ ServedPostSchedule
    \/ ServedDeleteSchedule
    \/ ServedPostStatus
    \/ ServedBoard
    \/ ServedPartners

SpecServed == InitServed /\ [][NextServed]_vars

(***************************************************************************)
(* C22: no derived state is cached: a status board or a recommendation     *)
(* list asked for after a store mutation has completed (user created,      *)
(* class added or removed, status updated) reflects that mutation: the     *)
(* board lists the stored users with their stored tags and classes, the    *)
(* recommendations name the users who now share a course.                  *)
(***************************************************************************)
C22_BoardReflectsStores ==
    LastCall("get_current_status") =>
        /\ ~IsRaised(resp.result)
        /\ {BoardUsers[k].id : k \in 1..Len(BoardUsers)} = UserIds
        /\ \A k \in 1..Len(BoardUsers) :
              /\ BoardUsers[k].manual_status = StatusOrFree(BoardUsers[k].id)
              /\ BoardUsers[k].current_class # NoneStr
                     <=> CurrentEntries(StoreEntries(BoardUsers[k].id), resp.now) # {}

C22_RecommendationsReflectStores ==
    LastCall("get_recommendations") =>
        /\ ~IsRaised(resp.result)
        /\ {Recs[k].id : k \in 1..Len(Recs)} = EligibleIds(resp.user_id)

C22_QueriesReflectStores == C22_BoardReflectsStores /\ C22_RecommendationsReflectStores

\* the same, for a server that imports app.py
C22_WhenImported == ReadsServedStores => C22_QueriesReflectStores

(***************************************************************************)
(* SpecReading: the stores are filled and emptied, and every read of the   *)
(* services is called with the ids of stored users and of nobody           *)
(***************************************************************************)
ReadingUsers == 2
ReadingSchedules == 2
ReadingUpdates == 1

ReadingUserIds == UserIds \cup UnknownUserIds

ReadingRegister == Register("CS", ReadingUsers)

ReadingPostSchedule ==
    \E user_id \in UserIds, course_code \in Courses :
        /\ n_schedules < ReadingSchedules
        /\ AddSchedule(user_id, course_code, "monday", HM(9, 0), HM(10, 20))

ReadingDeleteSchedule ==
    \E schedule_id \in DOMAIN schedules :
        RemoveSchedule(schedule_id, schedules[schedule_id].user_id)

ReadingPostStatus ==
    \E user_id \in UserIds :
        /\ n_updates < ReadingUpdates
        /\ UpdateUserStatus(user_id, "studying")

ReadingGetUser == \E user_id \in ReadingUserIds : GetUser(user_id)

ReadingGetUserSchedules == \E user_id \in ReadingUserIds : GetUserSchedules(user_id)

ReadingGetUserStatus == \E user_id \in ReadingUserIds : GetUserStatus(user_id)

ReadingGetCurrentStatus == GetCurrentStatus([day |-> "monday", hour |-> 9, minute |-> 30])

ReadingGetRecommendations ==
    \E user_id \in ReadingUserIds, order \in CourseOrders :
        GetRecommendations(user_id, Noon, order)

NextReading ==
    \/ ReadingRegister
    \/ ReadingPostSchedule
    \/ ReadingDeleteSchedule
    \/ ReadingPostStatus
    \/ ReadingGetUser
    \/ ReadingGetUserSchedules
    \/ ReadingGetUserStatus
    \/ ReadingGetCurrentStatus
    \/ ReadingGetRecommendations

SpecReading == Init /\ [][NextReading]_vars

\* the five reads, by the name the call leaves in resp
ReadOps == {"get_user", "get_user_schedules", "get_user_status",
            "get_current_status", "get_recommendations"}

\* a step in which one of the reads is called and returns
C23_ReadStep == resp' # resp /\ resp'.op \in ReadOps

(***************************************************************************)
(* C23: status-board builds, recommendation queries, get_user,             *)
(* get_user_schedules and get_user_status are read-only: for every store   *)
(* state and every argument, ids of unknown users included, the user       *)
(* store, the schedule store, the per-user index and the status store are  *)
(* the same before and after the call; no record and no index key is       *)
(* created, changed or removed.                                            *)
(***************************************************************************)
C23_ReadsChangeNoStore ==
    [][C23_ReadStep =>
          /\ UNCHANGED store_vars
          /\ DOMAIN user_schedules' = DOMAIN user_schedules
          /\ DOMAIN user_statuses' = DOMAIN user_statuses]_vars

\* the schedules of somebody without an index key have been asked for while
\* the stores hold users and entries, and the index still has no key for them
C23_Witness ==
    /\ LastCall("get_user_schedules")
    /\ resp.user_id \notin DOMAIN user_schedules
    /\ resp.result = Return(<<>>)
    /\ schedules # EmptyDict

\* recommendations for an id nobody has
C23_WitnessUnknownUser ==
    /\ LastCall("get_recommendations")
    /\ resp.user_id \notin UserIds
    /\ resp.user_id \notin DOMAIN user_schedules
    /\ users # <<>>

(***************************************************************************)
(* services.py: add_schedule and remove_schedule as request threads run    *)
(* them side by side (Flask's threaded server, no lock anywhere).  A       *)
(* thread can be suspended between the two statements of add_schedule, and *)
(* in remove_schedule between the evaluation of the iterable of the list   *)
(* comprehension, self.user_schedules[user_id] (line 46), and the loop     *)
(* over it.  The iterable is the list object the index held then: appends  *)
(* to that object are seen by the loop, the list another removal assigns   *)
(* to the index in the meantime is not.                                    *)
(***************************************************************************)
\* line 37
BeginAddSchedule(thread, user_id, course_code, day, start_time, end_time) ==
    LET schedule == Schedule(n_schedules + 1, user_id, course_code, day, start_time, end_time) IN
    /\ thread \notin DOMAIN threads
    /\ schedules' = DictSet(schedules, schedule.id, schedule)
    /\ n_schedules' = n_schedules + 1
    /\ threads' = DictSet(threads, thread, [op |-> "add_schedule", schedule |-> schedule])
    /\ UNCHANGED <<users, n_users, user_schedules, user_statuses, n_updates,
                   engine_schedules, engine_statuses, main_module, resp>>

\* line 38: the list the index holds now is appended to
FinishAddSchedule(thread) ==
    /\ thread \in DOMAIN threads
    /\ threads[thread].op = "add_schedule"
    /\ LET schedule == threads[thread].schedule IN
       /\ user_schedules' = DictSet(user_schedules, schedule.user_id,
                                    Append(IndexOf(user_schedules, schedule.user_id), schedule.id))
       /\ resp' = [op |-> "add_schedule", user_id |-> schedule.user_id, result |-> Return(schedule)]
    /\ threads' = DictDel(threads, thread)
    /\ UNCHANGED <<users, n_users, schedules, n_schedules, user_statuses, n_updates,
                   engine_schedules, engine_statuses, main_module>>

\* lines 41-44 and the iterable of line 46; attached says that the list the
\* thread iterates is still the one the index holds, iterable is its content
\* once it is not
BeginRemoveSchedule(thread, schedule_id, user_id) ==
    /\ thread \notin DOMAIN threads
    /\ IF schedule_id \in DOMAIN schedules /\ schedules[schedule_id].user_id = user_id
       THEN /\ schedules' = DictDel(schedules, schedule_id)
            /\ user_schedules' = DictSet(user_schedules, user_id, IndexOf(user_schedules, user_id))
            /\ threads' = DictSet(threads, thread,
                                  [op |-> "remove_schedule", schedule_id |-> schedule_id,
                                   user_id |-> user_id, attached |-> TRUE, iterable |-> <<>>])
            /\ UNCHANGED resp
       ELSE /\ resp' = [op |-> "remove_schedule", schedule_id |-> schedule_id, user_id |-> user_id,
                        result |-> IF schedule_id \in DOMAIN schedules THEN NotAuthorized ELSE NotFound]
            /\ UNCHANGED <<schedules, user_schedules, threads>>
    /\ UNCHANGED <<users, n_users, n_schedules, user_statuses, n_updates,
                   engine_schedules, engine_statuses, main_module>>

\* what the assignment of line 45 does to the other removals of the user that
\* iterate the list the index held until now
Detached(thread_state, user_id) ==
    IF /\ thread_state.op = "remove_schedule"
       /\ thread_state.user_id = user_id
       /\ thread_state.attached
    THEN [thread_state EXCEPT !.attached = FALSE, !.iterable = user_schedules[user_id]]
    ELSE thread_state

\* lines 45-48: the loop and the assignment of the new list
FinishRemoveSchedule(thread) ==
    /\ thread \in DOMAIN threads
    /\ threads[thread].op = "remove_schedule"
    /\ LET call == threads[thread]
           iterable == IF call.attached THEN user_schedules[call.user_id] ELSE call.iterable
       IN /\ user_schedules' = DictSet(user_schedules, call.user_id,
                                       WithoutId(iterable, call.schedule_id))
          /\ threads' = [t \in DOMAIN threads \ {thread} |-> Detached(threads[t], call.user_id)]
          /\ resp' = [op |-> "remove_schedule", schedule_id |-> call.schedule_id,
                      user_id |-> call.user_id, result |-> Return(None)]
    /\ UNCHANGED <<users, n_users, schedules, n_schedules, user_statuses, n_updates,
                   engine_schedules, engine_statuses, main_module>>

(***************************************************************************)
(* SpecIndex: users enter and remove classes from several request threads  *)
(***************************************************************************)
IndexUsers == 2
IndexSchedules == 3
IndexThreads == 3

IndexRegister == Register("CS", IndexUsers)

IndexBeginPost ==
    \E thread \in 1..IndexThreads, user_id \in UserIds :
        /\ n_schedules < IndexSchedules
        /\ BeginAddSchedule(thread, user_id, "CS 15-122", "monday", HM(9, 0), HM(10, 20))

IndexFinishPost == \E thread \in DOMAIN threads : FinishAddSchedule(thread)

\* the id of an entry is the uuid4 the /schedule handler draws (app.py:135);
\* a client learns it from the response or from the schedule page, after
\* add_schedule has returned
BeingAdded == {threads[t].schedule.id : t \in {x \in DOMAIN threads : threads[x].op = "add_schedule"}}

IndexBeginDelete ==
    \E thread \in 1..IndexThreads, schedule_id \in (1..IndexSchedules) \ BeingAdded,
       user_id \in UserIds :
        BeginRemoveSchedule(thread, schedule_id, user_id)

IndexFinishDelete == \E thread \in DOMAIN threads : FinishRemoveSchedule(thread)

IndexList == \E user_id \in UserIds : threads = EmptyDict /\ GetUserSchedules(user_id)

NextIndex ==
    \/ IndexRegister
    \/ IndexBeginPost
    \/ IndexFinishPost
    \/ IndexBeginDelete
    \/ IndexFinishDelete
    \/ IndexList

SpecIndex == Init /\ [][NextIndex]_vars

\* no add_schedule and no remove_schedule is under way
Quiescent == threads = EmptyDict

IndexedIds(user_id) == IndexOf(user_schedules, user_id)

\* each stored entry is once in the list of its owner and in no other list
C24_StoredAreIndexed ==
    \A schedule_id \in DOMAIN schedules, user_id \in DOMAIN user_schedules :
        Occurrences(IndexedIds(user_id), schedule_id)
            = IF schedules[schedule_id].user_id = user_id THEN 1 ELSE 0

\* each indexed id is the id of a stored entry
C24_IndexedAreStored ==
    \A user_id \in DOMAIN user_schedules :
        \A k \in 1..Len(IndexedIds(user_id)) : IndexedIds(user_id)[k] \in DOMAIN schedules

\* get_user_schedules(u) is the stored entries of u, each once
C24_ListIsStoredEntries ==
    \A user_id \in UserIds :
        /\ Range(get_user_schedules(user_id))
               = {schedules[schedule_id] : schedule_id \in
                     {x \in DOMAIN schedules : schedules[x].user_id = user_id}}
        /\ \A i, j \in 1..Len(get_user_schedules(user_id)) :
               get_user_schedules(user_id)[i] = get_user_schedules(user_id)[j] => i = j

(***************************************************************************)
(* C24: the schedule store and the per-user index stay consistent under    *)
(* any interleaving of add_schedule and remove_schedule calls: in every    *)
(* quiescent state each stored entry's id is exactly once in its owner's   *)
(* index list and in no other user's list, each indexed id refers to a     *)
(* stored entry, and get_user_schedules(u) returns exactly u's stored      *)
(* entries; an add_schedule that runs beside a remove_schedule of the same *)
(* user is never lost from the index.                                      *)
(***************************************************************************)
C24_IndexMatchesStore ==
    Quiescent => C24_StoredAreIndexed /\ C24_IndexedAreStored /\ C24_ListIsStoredEntries

\* the part about the added entry alone
C24_NoAddIsLost == Quiescent => C24_StoredAreIndexed

\* the part a caller of get_user_schedules can see
C24_ListMatchesStore == Quiescent => C24_ListIsStoredEntries

(***************************************************************************)
(* services.py: create_or_get_user as request threads run it side by side. *)
(* The scan of lines 20-22 and the insertion of lines 25-30 are separate   *)
(* statements with calls between them (uuid.uuid4(), User(...)), and a     *)
(* thread can be suspended after a scan that found nobody.                 *)
(***************************************************************************)
\* lines 20-22: the scan; a match is returned at once
BeginCreateOrGetUser(thread, username, major) ==
    LET found == MatchingUsers(username, major) IN
    /\ thread \notin DOMAIN threads
    /\ IF found # {}
       THEN /\ resp' = [op |-> "create_or_get_user", username |-> username, major |-> major,
                        result |-> Return(users[CHOOSE i \in found : \A j \in found : i <= j])]
            /\ UNCHANGED threads
       ELSE /\ threads' = DictSet(threads, thread,
                                  [op |-> "create_or_get_user", username |-> username, major |-> major])
            /\ UNCHANGED resp
    /\ UNCHANGED <<store_vars, engine_schedules, engine_statuses, main_module>>

\* lines 25-31: the record is made, stored and returned
FinishCreateOrGetUser(thread) ==
    /\ thread \in DOMAIN threads
    /\ threads[thread].op = "create_or_get_user"
    /\ LET user == User(n_users + 1, threads[thread].username, threads[thread].major) IN
       /\ users' = Append(users, user)
       /\ n_users' = n_users + 1
       /\ resp' = [op |-> "create_or_get_user", username |-> user.username, major |-> user.major,
                   result |-> Return(user)]
    /\ threads' = DictDel(threads, thread)
    /\ UNCHANGED <<schedules, user_schedules, n_schedules, user_statuses, n_updates,
                   engine_schedules, engine_statuses, main_module>>

(***************************************************************************)
(* SpecLogin: logins of several request threads                            *)
(***************************************************************************)
LoginUsers == 3
LoginThreads == 2

LoginBegin ==
    \E thread \in 1..LoginThreads, username \in Usernames, major \in Majors :
        /\ n_users + Cardinality(DOMAIN threads) < LoginUsers
        /\ BeginCreateOrGetUser(thread, username, major)

LoginFinish == \E thread \in DOMAIN threads : FinishCreateOrGetUser(thread)

LoginGetUser == \E user_id \in SessionUserIds : GetUser(user_id)

NextLogin ==
    \/ LoginBegin
    \/ LoginFinish
    \/ LoginGetUser

SpecLogin == Init /\ [][NextLogin]_vars

\* one record for each (username, major)
C25_OneRecordPerPair == \A i, j \in 1..Len(users) :
    users[i].username = users[j].username /\ users[i].major = users[j].major => i = j

\* a login returns the record every login of the pair returns: the first
\* stored one
C25_SameUserReturned ==
    LastCall("create_or_get_user") =>
        /\ MatchingUsers(resp.username, resp.major) # {}
        /\ resp.result = Return(users[CHOOSE i \in MatchingUsers(resp.username, resp.major) :
                                         \A j \in MatchingUsers(resp.username, resp.major) : i <= j])

(***************************************************************************)
(* C25: insert-if-absent of users is atomic with respect to logins that    *)
(* run side by side: when two request handlers call create_or_get_user     *)
(* with the same (username, major), in any interleaving of their check and *)
(* insert steps exactly one user record is created and both calls return   *)
(* the same user id.                                                       *)
(***************************************************************************)
C25_LoginIsAtomic == C25_OneRecordPerPair /\ C25_SameUserReturned

====
